---------------------------- MODULE Spec2Model ----------------------------
(***************************************************************************)
(* A model of the tool-calling evaluation harness: the Outcome Matcher     *)
(* (TestRunner.evaluateAgentResponse), the agent loop                      *)
(* (OpenAIService.ProcessChatMessage), the suite runner                    *)
(* (TestRunner.RunAgentTestSuite) and the Cart Store (CartService).        *)
(*                                                                         *)
(* One module holds several specifications over the same variables; each   *)
(* specification leaves the variables of the other parts at their initial  *)
(* values.                                                                 *)
(***************************************************************************)
EXTENDS Integers, Sequences, FiniteSets, TLC

VARIABLES
    mTestCase,   \* matcher: the test case handed to evaluateAgentResponse
    mTrace,      \* matcher: response.ToolCalls, the actual trace
    mOut,        \* matcher: the (bool, string) it returned, or None
    mOut2,       \* matcher: what a second run on the same pair returned, or None
    mLegacy,     \* matcher: what OpenAIService.isTestSuccessfulWithPath returned, or None
    carts,       \* CartService.carts: session -> *CartSummary (NoCart: no entry)
    cRet,        \* cart store: what the last CartService call returned
    testCases,   \* suite: the test cases handed to RunAgentTestSuite
    pc,          \* worker goroutine -> where it stands in runAgentTest
    loop,        \* worker goroutine -> the locals of ProcessChatMessage
    result,      \* worker goroutine -> the AgentTestResult it built, or None
    resultsChan, \* suite: the buffered channel's content
    closed,      \* suite: close(resultsChan) has happened
    wg,          \* suite: the WaitGroup's counter
    mainPc,      \* suite: where RunAgentTestSuite stands
    spawned,     \* suite: goroutines started by the dispatch loop
    closerPc,    \* suite: where the wg.Wait / close goroutine stands
    agg,         \* suite: the locals of the collecting loop
    report,      \* suite: the AgentReport returned, or None
    crashed,     \* the process has died of an unrecovered panic
    aResults,    \* analyzer: the results loaded for one model
    aOut,        \* analyzer: what analyzeModel returned, or None
    aCounts,     \* analyzer: the (tp, fp, tn, fn) handed to calculateMetrics
    aMetrics,    \* analyzer: the Metrics calculateMetrics returned, or None
    aFiles,      \* analyzer: the result files found in the batch directory
    aReport,     \* analyzer: what analyzeBatch returned, or None
    logFile,     \* request log: what has been written to RequestLogger.logFile
    logPc,       \* request log: goroutine -> where it stands in writeLogEntry
    logCount     \* request log: goroutine -> the entries it has written

matchVars == <<mTestCase, mTrace, mOut, mOut2, mLegacy>>
cartVars == <<carts, cRet>>
suiteVars == <<testCases, pc, loop, result, resultsChan, closed, wg, mainPc,
               spawned, closerPc, agg, report, crashed>>

analyzeVars == <<aResults, aOut, aCounts, aMetrics, aFiles, aReport>>

vars == <<mTestCase, mTrace, mOut, mOut2, mLegacy, carts, cRet, testCases, pc, loop, result,
          resultsChan, closed, wg, mainPc, spawned, closerPc, agg, report, crashed,
          aResults, aOut, aCounts, aMetrics, aFiles, aReport,
          logFile, logPc, logCount>>

logVars == <<logFile, logPc, logCount>>

None == [none |-> TRUE]

\* the request log is not in use
LogIdle == logFile = <<>> /\ logPc = <<>> /\ logCount = <<>>

\* the Batch Analyzer is not in use
AnalyzeIdle ==
    /\ aResults = <<>> /\ aOut = None
    /\ aCounts = <<0, 0, 0, 0>> /\ aMetrics = None
    /\ aFiles = <<>> /\ aReport = None

\* the suite runner is not in use
SuiteIdle ==
    /\ testCases = <<>> /\ pc = <<>> /\ loop = <<>> /\ result = <<>>
    /\ resultsChan = <<>> /\ closed = FALSE /\ wg = 0
    /\ mainPc = "idle" /\ spawned = 0 /\ closerPc = "idle"
    /\ agg = None /\ report = None /\ crashed = FALSE

(***************************************************************************)
(* Values.  A JSON value decoded into interface{} is a Go string or a      *)
(* float64; strings are sequences of one-character strings so that         *)
(* fmt.Sprintf("%v") and strings.EqualFold are computed, not assumed.      *)
(***************************************************************************)
Str(s) == [kind |-> "string", s |-> s]
Num(n) == [kind |-> "number", n |-> n]

UpperCase == <<"A","B","C","D","E","F","G","H","I","J","K","L","M",
               "N","O","P","Q","R","S","T","U","V","W","X","Y","Z">>
LowerCase == <<"a","b","c","d","e","f","g","h","i","j","k","l","m",
               "n","o","p","q","r","s","t","u","v","w","x","y","z">>
Digits == <<"0","1","2","3","4","5","6","7","8","9">>

\* unicode simple case folding, restricted to ASCII letters
ToLower(c) ==
    IF \E i \in 1..Len(UpperCase) : UpperCase[i] = c
    THEN LowerCase[CHOOSE i \in 1..Len(UpperCase) : UpperCase[i] = c]
    ELSE c

RECURSIVE Decimal(_)
Decimal(n) ==
    IF n < 10 THEN <<Digits[n + 1]>>
    ELSE Decimal(n \div 10) \o <<Digits[(n % 10) + 1]>>

\* fmt.Sprintf("%v", v) for a string and for a float64 holding a natural
Sprintf(v) ==
    IF v.kind = "string" THEN v.s ELSE Decimal(v.n)

\* strings.EqualFold(a, b)
EqualFold(a, b) ==
    /\ Len(a) = Len(b)
    /\ \A i \in 1..Len(a) : ToLower(a[i]) = ToLower(b[i])

(***************************************************************************)
(* The argument payload of a ToolCallResult is JSON text.  The text is     *)
(* modelled by what json.Unmarshal into a map makes of it: an object with  *)
(* its members, or text that does not decode into a map.                   *)
(***************************************************************************)
JsonObject(members) == [json |-> "object", members |-> members]
JsonGarbage(text) == [json |-> "garbage", text |-> text]

\* TestRunner.parseArguments
parseArguments(arguments) ==
    IF arguments.json = "object"
    THEN arguments.members
    ELSE ("_raw_arguments" :> Str(arguments.text)) @@
         ("_parse_error" :> Str(<<"e","r","r">>))

\* a plausible slip: the loop returns true at the first key that agrees
argumentsCorrectAnyKey(keys, expectedArgs, actualArgs) ==
    \/ keys = {}
    \/ \E key \in keys :
          /\ key \in DOMAIN actualArgs
          /\ EqualFold(Sprintf(expectedArgs[key]), Sprintf(actualArgs[key]))

\* the loop of isToolCallCorrect over expected.Arguments, one key at a time
RECURSIVE argumentsCorrect(_, _, _)
argumentsCorrect(keys, expectedArgs, actualArgs) ==
    IF keys = {} THEN TRUE
    ELSE LET key == CHOOSE k \in keys : TRUE
         IN IF key \notin DOMAIN actualArgs THEN FALSE
            ELSE IF ~EqualFold(Sprintf(expectedArgs[key]), Sprintf(actualArgs[key]))
                 THEN FALSE
                 ELSE argumentsCorrect(keys \ {key}, expectedArgs, actualArgs)

\* the same loop with the keys in the order the range statement yields them
\* (Go leaves the iteration order of a map open)
RECURSIVE argumentsCorrectIn(_, _, _)
argumentsCorrectIn(order, expectedArgs, actualArgs) ==
    IF order = <<>> THEN TRUE
    ELSE LET key == Head(order)
         IN IF key \notin DOMAIN actualArgs THEN FALSE
            ELSE IF ~EqualFold(Sprintf(expectedArgs[key]), Sprintf(actualArgs[key]))
                 THEN FALSE
                 ELSE argumentsCorrectIn(Tail(order), expectedArgs, actualArgs)

\* a plausible slip: the values are compared with == on the printed forms
isToolCallCorrectCaseSensitive(expected, actual) ==
    /\ expected.Name = actual.Name
    /\ \A key \in DOMAIN expected.Arguments :
          /\ key \in DOMAIN actual.Arguments
          /\ Sprintf(expected.Arguments[key]) = Sprintf(actual.Arguments[key])

\* TestRunner.isToolCallCorrect
isToolCallCorrect(expected, actual) ==
    IF expected.Name # actual.Name THEN FALSE
    ELSE argumentsCorrect(DOMAIN expected.Arguments, expected.Arguments,
                          actual.Arguments)

\* the loop of isPathSuccessful from index i
RECURSIVE pathLoop(_, _, _)
pathLoop(i, expected, actual) ==
    IF i > Len(expected) THEN TRUE
    ELSE IF i > Len(actual) \/ ~isToolCallCorrect(expected[i], actual[i])
         THEN FALSE
         ELSE pathLoop(i + 1, expected, actual)

\* a plausible slip: the exact-count check is left out
isPathSuccessfulNoCount(expected, actual) == pathLoop(1, expected, actual)

\* TestRunner.isPathSuccessful
isPathSuccessful(expected, actual) ==
    IF Len(actual) # Len(expected) THEN FALSE
    ELSE pathLoop(1, expected, actual)

\* the extraction loop of evaluateAgentResponse
actualToolsOf(toolCalls) ==
    [i \in 1..Len(toolCalls) |->
        [Name |-> toolCalls[i].ToolName,
         Arguments |-> parseArguments(toolCalls[i].Arguments)]]

\* a plausible slip: the loop goes on after a match, so the last one wins
RECURSIVE variantLoopLastWins(_, _, _)
variantLoopLastWins(i, variants, actualTools) ==
    IF i > Len(variants) THEN [success |-> FALSE, path |-> ""]
    ELSE LET later == variantLoopLastWins(i + 1, variants, actualTools)
         IN IF later.success THEN later
            ELSE IF isPathSuccessful(variants[i].Tools, actualTools)
                 THEN [success |-> TRUE, path |-> variants[i].Name]
                 ELSE later

\* the loop of evaluateAgentResponse over the variants, from index i
RECURSIVE variantLoop(_, _, _)
variantLoop(i, variants, actualTools) ==
    IF i > Len(variants) THEN [success |-> FALSE, path |-> ""]
    ELSE IF isPathSuccessful(variants[i].Tools, actualTools)
         THEN [success |-> TRUE, path |-> variants[i].Name]
         ELSE variantLoop(i + 1, variants, actualTools)

\* a plausible slip: a test case without variants always passes
evaluateAgentResponseNoTools(testCase, toolCalls) ==
    IF Len(testCase.ExpectedToolVariants) = 0
    THEN [success |-> TRUE, path |-> "no_tools_expected"]
    ELSE variantLoop(1, testCase.ExpectedToolVariants, actualToolsOf(toolCalls))

\* TestRunner.evaluateAgentResponse (response.ToolCalls is the trace)
evaluateAgentResponse(testCase, toolCalls) ==
    IF Len(testCase.ExpectedToolVariants) = 0
    THEN [success |-> Len(toolCalls) = 0, path |-> "no_tools_expected"]
    ELSE variantLoop(1, testCase.ExpectedToolVariants, actualToolsOf(toolCalls))

SeqsUpTo(S, n) == UNION { [1..k -> S] : k \in 0..n }

\* the elements of a finite set, listed in some order
RECURSIVE SetToSeq(_)
SetToSeq(S) ==
    IF S = {} THEN <<>>
    ELSE LET x == CHOOSE y \in S : TRUE IN <<x>> \o SetToSeq(S \ {x})

(***************************************************************************)
(* The Cart Store: CartService.  Prices are float64 in the code; they are  *)
(* counted here in cents, so that quantity x price and the sums are exact. *)
(***************************************************************************)
SessionIDs == <<"s1", "s2", "s3", "s4">>
Sessions == { SessionIDs[i] : i \in DOMAIN SessionIDs }
\* the sessions the callers of the Cart Store specification use
CartSessions == {"s1", "s2"}

NoCart == [none |-> TRUE]
NewStore == [s \in Sessions |-> NoCart]

\* a model bound: AddToCart is not taken beyond this quantity on a line
MaxQty == 2
DefaultPrice == 9999

\* product names are Go strings: sequences of characters
IPhone15 == <<"i","P","h","o","n","e"," ","1","5">>
OrganicPasta == <<"O","r","g","a","n","i","c"," ","P","a","s","t","a">>
Gadget == <<"G","a","d","g","e","t">>

\* CartService.getProductPrice, on the products of the model
getProductPrice(productName) ==
    CASE productName = IPhone15 -> 99999
      [] productName = OrganicPasta -> 499
      [] OTHER -> DefaultPrice

EmptyCart(sessionID) ==
    [SessionID |-> sessionID, Items |-> <<>>, Total |-> 0, ItemCount |-> 0]

\* CartService.getOrCreateCart: the store after the call
getOrCreateCart(cs, sessionID) ==
    IF cs[sessionID] # NoCart THEN cs
    ELSE [cs EXCEPT ![sessionID] = EmptyCart(sessionID)]

\* the loop of updateCartTotals: total += item.Subtotal
RECURSIVE sumSubtotals(_, _)
sumSubtotals(items, i) ==
    IF i > Len(items) THEN 0
    ELSE items[i].Subtotal + sumSubtotals(items, i + 1)

\* the loop of updateCartTotals: itemCount += item.Quantity
RECURSIVE sumQuantities(_, _)
sumQuantities(items, i) ==
    IF i > Len(items) THEN 0
    ELSE items[i].Quantity + sumQuantities(items, i + 1)

\* a plausible slip: the item count is left as it was
updateCartTotalsKeepsCount(cart) ==
    [cart EXCEPT !.Total = sumSubtotals(cart.Items, 1)]

\* CartService.updateCartTotals
updateCartTotals(cart) ==
    [cart EXCEPT !.Total = sumSubtotals(cart.Items, 1),
                 !.ItemCount = sumQuantities(cart.Items, 1)]

\* the index of the first line with that product name, 0 when there is none
RECURSIVE firstLine(_, _, _)
firstLine(items, productName, i) ==
    IF i > Len(items) THEN 0
    ELSE IF items[i].ProductName = productName THEN i
         ELSE firstLine(items, productName, i + 1)

CartItem(productName, quantity, price) ==
    [ProductName |-> productName, Quantity |-> quantity, Price |-> price,
     Subtotal |-> quantity * price]

\* a plausible slip: a line is appended whether or not the product has one
AddToCartAlwaysAppends(cs, sessionID, productName, quantity) ==
    LET q == IF quantity <= 0 THEN 1 ELSE quantity
        cs1 == getOrCreateCart(cs, sessionID)
        cart == cs1[sessionID]
        items == Append(cart.Items,
                        CartItem(productName, q, getProductPrice(productName)))
    IN [cs1 EXCEPT ![sessionID] = updateCartTotals([cart EXCEPT !.Items = items])]

\* CartService.AddToCart: the store after the call
AddToCart(cs, sessionID, productName, quantity) ==
    LET q == IF quantity <= 0 THEN 1 ELSE quantity
        cs1 == getOrCreateCart(cs, sessionID)
        cart == cs1[sessionID]
        i == firstLine(cart.Items, productName, 1)
        items ==
            IF i # 0
            THEN [cart.Items EXCEPT
                     ![i] = [@ EXCEPT !.Quantity = @ + q,
                                      !.Subtotal = (cart.Items[i].Quantity + q)
                                                   * cart.Items[i].Price]]
            ELSE Append(cart.Items,
                        CartItem(productName, q, getProductPrice(productName)))
    IN [cs1 EXCEPT ![sessionID] = updateCartTotals([cart EXCEPT !.Items = items])]

\* a plausible slip: cart.Items[:i] alone, the lines after i are dropped
removeAtTruncates(items, i) == SubSeq(items, 1, i - 1)

\* append(cart.Items[:i], cart.Items[i+1:]...)
removeAt(items, i) ==
    [k \in 1..(Len(items) - 1) |-> IF k < i THEN items[k] ELSE items[k + 1]]

\* CartService.RemoveFromCart: the store after the call
RemoveFromCart(cs, sessionID, productName) ==
    LET cs1 == getOrCreateCart(cs, sessionID)
        cart == cs1[sessionID]
        i == firstLine(cart.Items, productName, 1)
        items == IF i # 0 THEN removeAt(cart.Items, i) ELSE cart.Items
    IN [cs1 EXCEPT ![sessionID] = updateCartTotals([cart EXCEPT !.Items = items])]

\* CartService.GetCartSummary: the store after the call (the cart is created
\* when the session has none)
GetCartSummary(cs, sessionID) == getOrCreateCart(cs, sessionID)

\* CartService.CheckoutCart: the CheckoutResult
CheckoutResult(cs, sessionID) ==
    [Success |-> TRUE,
     Total |-> getOrCreateCart(cs, sessionID)[sessionID].Total]

\* a plausible slip: the lines are cleared and the totals are left
CheckoutCartKeepsTotals(cs, sessionID) ==
    LET cs1 == getOrCreateCart(cs, sessionID)
    IN [cs1 EXCEPT ![sessionID] = [@ EXCEPT !.Items = <<>>]]

\* CartService.CheckoutCart: the store after the call
CheckoutCart(cs, sessionID) ==
    LET cs1 == getOrCreateCart(cs, sessionID)
    IN [cs1 EXCEPT ![sessionID] =
           [@ EXCEPT !.Items = <<>>, !.Total = 0, !.ItemCount = 0]]

\* the loop of InitializeCartState over initialState.Items
\* a plausible slip: items whose quantity is not positive are kept
RECURSIVE initialItemsKeepsAll(_, _)
initialItemsKeepsAll(items, i) ==
    IF i > Len(items) THEN <<>>
    ELSE <<CartItem(items[i].ProductName, items[i].Quantity,
                    getProductPrice(items[i].ProductName))>>
         \o initialItemsKeepsAll(items, i + 1)

RECURSIVE initialItems(_, _)
initialItems(items, i) ==
    IF i > Len(items) THEN <<>>
    ELSE IF items[i].Quantity <= 0 THEN initialItems(items, i + 1)
         ELSE <<CartItem(items[i].ProductName, items[i].Quantity,
                         getProductPrice(items[i].ProductName))>>
              \o initialItems(items, i + 1)

\* a plausible slip: the map is made anew for the initial state
InitializeCartStateNewMap(cs, sessionID, initialState) ==
    IF initialState = None THEN cs
    ELSE [NewStore EXCEPT ![sessionID] =
             updateCartTotals([EmptyCart(sessionID) EXCEPT
                                  !.Items = initialItems(initialState.Items, 1)])]

\* CartService.InitializeCartState: the store after the call; initialState is
\* None for a nil pointer
InitializeCartState(cs, sessionID, initialState) ==
    IF initialState = None THEN cs
    ELSE [cs EXCEPT ![sessionID] =
             updateCartTotals([EmptyCart(sessionID) EXCEPT
                                  !.Items = initialItems(initialState.Items, 1)])]

\* a product of the price table and one that is not in it
Products == {IPhone15, Gadget}
Quantities == {-1, 0, 1, 2}

InitialCartItem(productName, quantity) ==
    [ProductName |-> productName, Quantity |-> quantity]

\* the initial cart states of the test cases: none (nil), an empty list, the
\* two-line state of the spec's scenario, a product named twice, and items
\* whose quantity is not positive
InitialCartStates ==
    { None,
      [Items |-> <<>>],
      [Items |-> <<InitialCartItem(IPhone15, 2), InitialCartItem(Gadget, 1)>>],
      [Items |-> <<InitialCartItem(Gadget, 1), InitialCartItem(Gadget, 2)>>],
      [Items |-> <<InitialCartItem(Gadget, 0), InitialCartItem(IPhone15, 1)>>],
      [Items |-> <<InitialCartItem(IPhone15, -1)>>] }

CartIdle ==
    /\ carts = NewStore
    /\ cRet = None

MatchIdle ==
    /\ mTestCase = None /\ mTrace = <<>> /\ mOut = None /\ mOut2 = None
    /\ mLegacy = None

CartInit == CartIdle /\ MatchIdle /\ SuiteIdle /\ AnalyzeIdle /\ LogIdle

WithinModel(cs) ==
    \A s \in Sessions : cs[s] # NoCart =>
        \A i \in 1..Len(cs[s].Items) : cs[s].Items[i].Quantity <= MaxQty

CallInitializeCartState(s, st) ==
    /\ carts' = InitializeCartState(carts, s, st)
    /\ cRet' = [op |-> "InitializeCartState", session |-> s, err |-> None]
    /\ UNCHANGED <<logVars, analyzeVars, matchVars, suiteVars>>

CallAddToCart(s, p, q) ==
    /\ WithinModel(AddToCart(carts, s, p, q))
    /\ carts' = AddToCart(carts, s, p, q)
    /\ cRet' = [op |-> "AddToCart", session |-> s, err |-> None,
                productName |-> p, quantity |-> q]
    /\ UNCHANGED <<logVars, analyzeVars, matchVars, suiteVars>>

CallRemoveFromCart(s, p) ==
    /\ carts' = RemoveFromCart(carts, s, p)
    /\ cRet' = [op |-> "RemoveFromCart", session |-> s, err |-> None,
                productName |-> p]
    /\ UNCHANGED <<logVars, analyzeVars, matchVars, suiteVars>>

CallGetCartSummary(s) ==
    /\ carts' = GetCartSummary(carts, s)
    /\ cRet' = [op |-> "GetCartSummary", session |-> s, err |-> None]
    /\ UNCHANGED <<logVars, analyzeVars, matchVars, suiteVars>>

CallCheckoutCart(s) ==
    /\ carts' = CheckoutCart(carts, s)
    /\ cRet' = [op |-> "CheckoutCart", session |-> s, err |-> None,
                result |-> CheckoutResult(carts, s)]
    /\ UNCHANGED <<logVars, analyzeVars, matchVars, suiteVars>>

CartNext ==
    \/ \E s \in CartSessions, st \in InitialCartStates : CallInitializeCartState(s, st)
    \/ \E s \in CartSessions, p \in Products, q \in Quantities : CallAddToCart(s, p, q)
    \/ \E s \in CartSessions, p \in Products : CallRemoveFromCart(s, p)
    \/ \E s \in CartSessions : CallGetCartSummary(s)
    \/ \E s \in CartSessions : CallCheckoutCart(s)

SpecCart == CartInit /\ [][CartNext]_vars

(***************************************************************************)
(* Inputs of the matcher.                                                  *)
(***************************************************************************)
MaxVariants == 2
MaxTraceLen == 2

Tv == <<"T","v">>
TV == <<"T","V">>
tv == <<"t","v">>

ExpectedCall(name, args) == [Name |-> name, Arguments |-> args]
ToolCallResult(name, arguments) == [ToolName |-> name, Arguments |-> arguments]

ExpAdd ==
    ExpectedCall("add_to_cart",
                 ("product_name" :> Str(Tv)) @@ ("quantity" :> Num(1)))
ExpSearch == ExpectedCall("search_products", ("query" :> Str(tv)))
ExpView == ExpectedCall("view_cart", <<>>)
\* a search is expected, whatever its arguments
ExpSearchAny == ExpectedCall("search_products", <<>>)

\* the tool sequences a variant of a test case may hold
ExpectedPaths ==
    { <<>>, <<ExpAdd>>, <<ExpSearch>>, <<ExpView>>, <<ExpSearchAny>>,
      <<ExpSearch, ExpAdd>>, <<ExpAdd, ExpSearch>> }

ActualCalls ==
    { \* the expected add_to_cart, verbatim
      ToolCallResult("add_to_cart", JsonObject(
          ("product_name" :> Str(Tv)) @@ ("quantity" :> Num(1)))),
      \* other letter case, the number as a string, one more key
      ToolCallResult("add_to_cart", JsonObject(
          ("product_name" :> Str(TV)) @@ ("quantity" :> Str(<<"1">>)) @@
          ("note" :> Str(tv)))),
      \* an expected key is missing
      ToolCallResult("add_to_cart", JsonObject(("product_name" :> Str(Tv)))),
      \* an expected key has another value
      ToolCallResult("add_to_cart", JsonObject(
          ("product_name" :> Str(Tv)) @@ ("quantity" :> Num(2)))),
      \* the expected search, other letter case, one more key
      ToolCallResult("search_products", JsonObject(
          ("query" :> Str(TV)) @@ ("limit" :> Num(5)))),
      \* a payload that is no JSON object
      ToolCallResult("search_products", JsonGarbage(tv)),
      ToolCallResult("view_cart", JsonObject(<<>>)) }

VariantNames == <<"v1", "v2", "v3", "v4">>

TestCasesOfMatcher ==
    { [ExpectedToolVariants |->
          [i \in 1..Len(paths) |-> [Name |-> VariantNames[i], Tools |-> paths[i]]]]
      : paths \in SeqsUpTo(ExpectedPaths, MaxVariants) }

\* the Cart Store while the matcher runs: empty, or holding a cart
StoresOfMatcher ==
    { NewStore, AddToCart(NewStore, SessionIDs[1], IPhone15, 1) }

MatchInit ==
    /\ mTestCase \in TestCasesOfMatcher
    /\ mTrace \in SeqsUpTo(ActualCalls, MaxTraceLen)
    /\ mOut = None
    /\ mOut2 = None
    /\ mLegacy = None
    /\ carts \in StoresOfMatcher
    /\ cRet = None
    /\ SuiteIdle
    /\ AnalyzeIdle /\ LogIdle

Evaluate ==
    /\ mOut = None
    /\ mOut' = evaluateAgentResponse(mTestCase, mTrace)
    /\ UNCHANGED <<mTestCase, mTrace, mOut2, mLegacy>>
    /\ UNCHANGED <<logVars, analyzeVars, cartVars, suiteVars>>

\* evaluateAgentResponse is called once more with the same arguments
EvaluateAgain ==
    /\ mOut # None /\ mOut2 = None
    /\ mOut2' = evaluateAgentResponse(mTestCase, mTrace)
    /\ UNCHANGED <<mTestCase, mTrace, mOut, mLegacy>>
    /\ UNCHANGED <<logVars, analyzeVars, cartVars, suiteVars>>

MatchNext == Evaluate \/ EvaluateAgain

SpecMatch == MatchInit /\ [][MatchNext]_vars

(***************************************************************************)
(* The single-shot matcher of OpenAIService, run on the tool names and     *)
(* argument mappings the agent-loop matcher scores.                        *)
(***************************************************************************)
\* OpenAIService.isToolCallCorrect: the printed forms are compared with !=
OpenAIService_isToolCallCorrect(expected, actual) ==
    IF expected.Name # actual.Name THEN FALSE
    ELSE \A key \in DOMAIN expected.Arguments :
            /\ key \in DOMAIN actual.Arguments
            /\ Sprintf(expected.Arguments[key]) = Sprintf(actual.Arguments[key])

\* OpenAIService.isPathSuccessful
OpenAIService_isPathSuccessful(expected, actual) ==
    IF Len(actual) # Len(expected) THEN FALSE
    ELSE \A i \in 1..Len(expected) :
            OpenAIService_isToolCallCorrect(expected[i], actual[i])

\* the loop of isTestSuccessfulWithPath over the variants, from index i
RECURSIVE withPathLoop(_, _, _)
withPathLoop(i, variants, actual) ==
    IF i > Len(variants) THEN [success |-> FALSE, path |-> ""]
    ELSE IF OpenAIService_isPathSuccessful(variants[i].Tools, actual)
         THEN [success |-> TRUE, path |-> variants[i].Name]
         ELSE withPathLoop(i + 1, variants, actual)

\* OpenAIService.isTestSuccessfulWithPath
isTestSuccessfulWithPath(testCase, actual) ==
    IF Len(testCase.ExpectedToolVariants) > 0
    THEN withPathLoop(1, testCase.ExpectedToolVariants, actual)
    ELSE IF Len(actual) = 0
         THEN [success |-> TRUE, path |-> "no_tools_expected"]
         ELSE [success |-> FALSE, path |-> ""]

EvaluateLegacy ==
    /\ mLegacy = None
    /\ mLegacy' = isTestSuccessfulWithPath(mTestCase, actualToolsOf(mTrace))
    /\ UNCHANGED <<mTestCase, mTrace, mOut, mOut2>>
    /\ UNCHANGED <<logVars, analyzeVars, cartVars, suiteVars>>

MatchersNext == Evaluate \/ EvaluateLegacy

SpecMatchers == MatchInit /\ [][MatchersNext]_vars

(***************************************************************************)
(* The tool executor: ToolExecutor.executeToolCall and its handlers.       *)
(***************************************************************************)
ToolCall(id, name, arguments) == [ID |-> id, Name |-> name, Arguments |-> arguments]

newToolCallResult(callID, toolName, success, res, err, arguments) ==
    [CallID |-> callID, ToolName |-> toolName, Success |-> success,
     Result |-> res, Error |-> err, Arguments |-> arguments]

\* a *CartSummary: the pointer CartService hands out is the stored cart itself
CartPointer(sessionID) == [cartOf |-> sessionID]

\* json.Unmarshal of the payload into a handler's args struct succeeds: the
\* text is an object, the string fields hold strings and the int fields numbers
decodes(arguments, stringFields, intFields) ==
    /\ arguments.json = "object"
    /\ \A f \in stringFields \cap DOMAIN arguments.members :
          arguments.members[f].kind = "string"
    /\ \A f \in intFields \cap DOMAIN arguments.members :
          arguments.members[f].kind = "number"

\* a decoded string field ("" when the payload has none)
stringField(arguments, f) ==
    IF f \in DOMAIN arguments.members THEN arguments.members[f].s ELSE <<>>

\* a decoded int field (0 when the payload has none)
intField(arguments, f) ==
    IF f \in DOMAIN arguments.members THEN arguments.members[f].n ELSE 0

EmptyObject == JsonObject(<<>>)

\* ToolExecutor.handleSearchProducts
handleSearchProducts(cs, arguments, toolCallID) ==
    IF ~decodes(arguments, {"query", "category"}, {"limit"})
    THEN [carts |-> cs,
          result |-> newToolCallResult(toolCallID, "search_products", FALSE, None,
                                       "Invalid arguments", arguments)]
    ELSE [carts |-> cs,
          result |-> newToolCallResult(toolCallID, "search_products", TRUE,
                                       "products", "", arguments)]

\* ToolExecutor.handleAddToCart
handleAddToCart(cs, arguments, sessionID, toolCallID) ==
    IF ~decodes(arguments, {"product_name"}, {"quantity"})
    THEN [carts |-> cs,
          result |-> newToolCallResult(toolCallID, "add_to_cart", FALSE, None,
                                       "Invalid arguments", arguments)]
    ELSE LET q == intField(arguments, "quantity")
             quantity == IF q = 0 THEN 1 ELSE q
         IN [carts |-> AddToCart(cs, sessionID,
                                 stringField(arguments, "product_name"), quantity),
             result |-> newToolCallResult(toolCallID, "add_to_cart", TRUE,
                                          CartPointer(sessionID), "", arguments)]

\* ToolExecutor.handleRemoveFromCart
handleRemoveFromCart(cs, arguments, sessionID, toolCallID) ==
    IF ~decodes(arguments, {"product_name"}, {})
    THEN [carts |-> cs,
          result |-> newToolCallResult(toolCallID, "remove_from_cart", FALSE, None,
                                       "Invalid arguments", arguments)]
    ELSE [carts |-> RemoveFromCart(cs, sessionID,
                                   stringField(arguments, "product_name")),
          result |-> newToolCallResult(toolCallID, "remove_from_cart", TRUE,
                                       CartPointer(sessionID), "", arguments)]

\* a plausible slip: the cart is emptied once it has been shown
handleViewCartClears(cs, sessionID, toolCallID) ==
    [carts |-> CheckoutCart(cs, sessionID),
     result |-> newToolCallResult(toolCallID, "view_cart", TRUE,
                                  CartPointer(sessionID), "", EmptyObject)]

\* ToolExecutor.handleViewCart
handleViewCart(cs, sessionID, toolCallID) ==
    [carts |-> GetCartSummary(cs, sessionID),
     result |-> newToolCallResult(toolCallID, "view_cart", TRUE,
                                  CartPointer(sessionID), "", EmptyObject)]

\* ToolExecutor.handleCheckout
handleCheckout(cs, sessionID, toolCallID) ==
    [carts |-> CheckoutCart(cs, sessionID),
     result |-> newToolCallResult(toolCallID, "checkout", TRUE,
                                  CheckoutResult(cs, sessionID), "", EmptyObject)]

\* ToolExecutor.executeToolCall: the store after the call and the result
\* a plausible slip: a tool that is not in the catalog is reported as done
executeToolCallUnknownSucceeds(cs, toolCall, sessionID) ==
    CASE toolCall.Name = "search_products" ->
            handleSearchProducts(cs, toolCall.Arguments, toolCall.ID)
      [] toolCall.Name = "add_to_cart" ->
            handleAddToCart(cs, toolCall.Arguments, sessionID, toolCall.ID)
      [] toolCall.Name = "remove_from_cart" ->
            handleRemoveFromCart(cs, toolCall.Arguments, sessionID, toolCall.ID)
      [] toolCall.Name = "view_cart" -> handleViewCart(cs, sessionID, toolCall.ID)
      [] toolCall.Name = "checkout" -> handleCheckout(cs, sessionID, toolCall.ID)
      [] OTHER ->
            [carts |-> cs,
             result |-> newToolCallResult(toolCall.ID, toolCall.Name, TRUE, None,
                                          "", toolCall.Arguments)]

executeToolCall(cs, toolCall, sessionID) ==
    CASE toolCall.Name = "search_products" ->
            handleSearchProducts(cs, toolCall.Arguments, toolCall.ID)
      [] toolCall.Name = "add_to_cart" ->
            handleAddToCart(cs, toolCall.Arguments, sessionID, toolCall.ID)
      [] toolCall.Name = "remove_from_cart" ->
            handleRemoveFromCart(cs, toolCall.Arguments, sessionID, toolCall.ID)
      [] toolCall.Name = "view_cart" -> handleViewCart(cs, sessionID, toolCall.ID)
      [] toolCall.Name = "checkout" -> handleCheckout(cs, sessionID, toolCall.ID)
      [] OTHER ->
            [carts |-> cs,
             result |-> newToolCallResult(toolCall.ID, toolCall.Name, FALSE, None,
                                          "Unknown tool", toolCall.Arguments)]

(***************************************************************************)
(* The agent loop (OpenAIService.ProcessChatMessage), one test execution   *)
(* (TestRunner.runAgentTest) and the suite (TestRunner.RunAgentTestSuite). *)
(* Each test case runs in a goroutine of its own; worker w runs            *)
(* testCases[w] under the session SessionIDs[w].                           *)
(***************************************************************************)
maxIterations == 5

FallbackMessage ==
    "I've reached the maximum number of operations I can perform. Let me know if you need anything else!"

Workers == DOMAIN testCases
SessionOf(w) == SessionIDs[w]

\* the messages of the conversation history
SystemMessage == [role |-> "system"]
UserMessage == [role |-> "user"]
AssistantToolCalls(toolCalls) == [role |-> "assistant", toolCalls |-> toolCalls]
ToolMessage(content, callID) == [role |-> "tool", content |-> content, callID |-> callID]

\* buildMessagesFromSession on the empty session runAgentTest creates
buildMessagesFromSession == <<SystemMessage, UserMessage>>

\* json.Marshal(result.Result): a *CartSummary is written out as the cart
\* is at that moment
marshalResult(cs, toolResult) ==
    IF toolResult.Success
       /\ toolResult.ToolName \in {"add_to_cart", "remove_from_cart", "view_cart"}
    THEN cs[toolResult.Result.cartOf]
    ELSE toolResult.Result

\* a plausible slip: a failed tool call gets no tool-result message
toolMessagesSkipsFailures(cs, iterationResults) ==
    LET done == SelectSeq(iterationResults, LAMBDA r : r.Success)
    IN [k \in 1..Len(done) |->
           ToolMessage(marshalResult(cs, done[k]), done[k].CallID)]

\* the tool-result messages ProcessChatMessage adds for iterationResults
toolMessages(cs, iterationResults) ==
    [k \in 1..Len(iterationResults) |->
        ToolMessage(marshalResult(cs, iterationResults[k]), iterationResults[k].CallID)]

\* the locals of ProcessChatMessage; completion holds the last answer of the
\* model endpoint (completion, err), None before the first request
NewLoop ==
    [currentIteration |-> 0, llmRequests |-> 0, responseMessage |-> "",
     toolResults |-> <<>>, pending |-> <<>>, iterationResults |-> <<>>,
     completion |-> None, messages |-> buildMessagesFromSession]

\* what the model endpoint may answer to one request
ErrorReply == [kind |-> "error"]
NoChoiceReply == [kind |-> "nochoice"]
MessageReply(content, toolCalls) ==
    [kind |-> "message", content |-> content, toolCalls |-> toolCalls]

CallAdd == ToolCall("c1", "add_to_cart",
                    JsonObject(("product_name" :> Str(Tv)) @@ ("quantity" :> Num(1))))
CallSearch == ToolCall("c2", "search_products", JsonObject(("query" :> Str(tv))))
CallRemove == ToolCall("c3", "remove_from_cart", JsonObject(("product_name" :> Str(Tv))))
CallView == ToolCall("c4", "view_cart", EmptyObject)
CallCheckout == ToolCall("c5", "checkout", EmptyObject)
CallUnknown == ToolCall("c6", "teleport", EmptyObject)

\* the tool-call lists of the replies of the loop specification
LoopToolBatches ==
    { <<CallAdd>>, <<CallSearch, CallAdd>>, <<CallUnknown, CallView>>,
      <<CallRemove>>, <<CallCheckout>> }

LoopReplies ==
    {ErrorReply, NoChoiceReply} \cup
    { MessageReply(c, <<>>) : c \in {"t1", "t2"} } \cup
    { MessageReply("c", b) : b \in LoopToolBatches }

\* the replies of the suite specification
SuiteReplies ==
    {ErrorReply, NoChoiceReply, MessageReply("t1", <<>>),
     MessageReply("c", <<CallAdd>>)}

TestCase(name, initialCartState, paths) ==
    [Name |-> name, InitialCartState |-> initialCartState,
     ExpectedToolVariants |->
        [i \in 1..Len(paths) |-> [Name |-> VariantNames[i], Tools |-> paths[i]]]]

\* no tool call is the right answer
CaseHello == TestCase("hello", None, <<>>)
\* add directly, or search and then add
CaseAdd == TestCase("add", None, <<(<<ExpAdd>>), <<ExpSearch, ExpAdd>>>>)
\* the cart starts with one line
CaseRefill ==
    TestCase("refill", [Items |-> <<InitialCartItem(Gadget, 1)>>], <<(<<ExpAdd>>)>>)

\* a model bound: the number of test cases of a suite
NumTests == 2

SuiteCases == <<CaseHello, CaseAdd, CaseRefill>>

\* TestRunner.runAgentTest: the result for a failed ProcessChatMessage
ErrorResult(testCase) ==
    [TestCase |-> testCase.Name, Response |-> None, Success |-> FALSE,
     MatchedPath |-> "", ErrorMessage |-> "failed to get AI response"]

\* a plausible slip: the text of the last reply is kept at the cap
ChatResponseKeepsText(l, sessionID) ==
    [Message |-> l.responseMessage,
     SessionID |-> sessionID,
     CartSummary |-> CartPointer(sessionID),
     ToolCalls |-> l.toolResults,
     LLMRequests |-> l.llmRequests]

\* a plausible slip: at the cap the calls of the last response are left out
ChatResponseForgetsLastCalls(l, sessionID) ==
    [Message |-> IF l.currentIteration >= maxIterations
                 THEN FallbackMessage ELSE l.responseMessage,
     SessionID |-> sessionID,
     CartSummary |-> CartPointer(sessionID),
     ToolCalls |-> IF l.currentIteration >= maxIterations
                   THEN SubSeq(l.toolResults, 1, Len(l.toolResults) - 1)
                   ELSE l.toolResults,
     LLMRequests |-> l.llmRequests]

\* a plausible slip: the iterations are reported as the number of requests
ChatResponseCountsIterations(l, sessionID) ==
    [Message |-> IF l.currentIteration >= maxIterations
                 THEN FallbackMessage ELSE l.responseMessage,
     SessionID |-> sessionID,
     CartSummary |-> CartPointer(sessionID),
     ToolCalls |-> l.toolResults,
     LLMRequests |-> l.currentIteration]

\* the ChatResponse ProcessChatMessage returns after its loop
ChatResponse(l, sessionID) ==
    [Message |-> IF l.currentIteration >= maxIterations
                 THEN FallbackMessage ELSE l.responseMessage,
     SessionID |-> sessionID,
     CartSummary |-> CartPointer(sessionID),
     ToolCalls |-> l.toolResults,
     LLMRequests |-> l.llmRequests]

\* TestRunner.runAgentTest: the result for a returned ChatResponse
EvaluatedResult(testCase, response) ==
    LET verdict == evaluateAgentResponse(testCase, response.ToolCalls)
    IN [TestCase |-> testCase.Name, Response |-> response,
        Success |-> verdict.success, MatchedPath |-> verdict.path,
        ErrorMessage |-> ""]

NewAgg == [results |-> <<>>, passedTests |-> 0, failedTests |-> 0,
           totalLLMRequests |-> 0]

Running == ~crashed

\* RunAgentTestSuite is entered with these test cases
SuiteStart(cases) ==
    /\ testCases = cases
    /\ pc = [w \in DOMAIN cases |-> "unborn"]
    /\ loop = [w \in DOMAIN cases |-> NewLoop]
    /\ result = [w \in DOMAIN cases |-> None]
    /\ resultsChan = <<>> /\ closed = FALSE /\ wg = 0
    /\ mainPc = "dispatch" /\ spawned = 0 /\ closerPc = "unborn"
    /\ agg = NewAgg /\ report = None /\ crashed = FALSE

\* the dispatch loop: wg.Add(1); go func(tc) {...}(testCase)
Spawn ==
    /\ Running /\ mainPc = "dispatch" /\ spawned < Len(testCases)
    /\ wg' = wg + 1
    /\ spawned' = spawned + 1
    /\ pc' = [pc EXCEPT ![spawned + 1] = "start"]
    /\ UNCHANGED <<testCases, loop, result, resultsChan, closed, mainPc,
                   closerPc, agg, report, crashed>>
    /\ UNCHANGED <<logVars, analyzeVars, matchVars, cartVars>>

\* go func() { wg.Wait(); close(resultsChan) }()
StartCloser ==
    /\ Running /\ mainPc = "dispatch" /\ spawned = Len(testCases)
    /\ closerPc' = "wait"
    /\ mainPc' = "collect"
    /\ UNCHANGED <<testCases, pc, loop, result, resultsChan, closed, wg,
                   spawned, agg, report, crashed>>
    /\ UNCHANGED <<logVars, analyzeVars, matchVars, cartVars>>

\* the goroutines inside GetCartSummary at the end of ProcessChatMessage:
\* they hold cs.mutex.RLock()
Readers == {v \in Workers : pc[v] = "summary"}

\* cs.mutex.Lock() can be taken: no goroutine holds the read lock
CanLock == Readers = {}

\* getOrCreateCart will store a new cart in the map for this session
Creates(sessionID) == carts[sessionID] = NoCart

\* worker w accesses the map under the read lock while another goroutine is
\* inside GetCartSummary too, and one of the two stores a new cart: the read
\* lock admits both, so a map write runs next to another map access
MapRace(w) ==
    \E v \in Readers \ {w} : Creates(SessionOf(w)) \/ Creates(SessionOf(v))

\* both goroutines store a new cart at the same time
WriteRace(w) ==
    \E v \in Readers \ {w} : Creates(SessionOf(w)) /\ Creates(SessionOf(v))

\* the tool call reaches a CartService method that takes cs.mutex.Lock()
locksStore(toolCall) ==
    \/ /\ toolCall.Name = "add_to_cart"
       /\ decodes(toolCall.Arguments, {"product_name"}, {"quantity"})
    \/ /\ toolCall.Name = "remove_from_cart"
       /\ decodes(toolCall.Arguments, {"product_name"}, {})
    \/ toolCall.Name = "checkout"

\* runAgentTest up to the call of ProcessChatMessage
BeginTest(w) ==
    /\ Running /\ pc[w] = "start"
    /\ testCases[w].InitialCartState # None => CanLock
    /\ carts' = InitializeCartState(carts, SessionOf(w), testCases[w].InitialCartState)
    /\ loop' = [loop EXCEPT ![w] = NewLoop]
    /\ pc' = [pc EXCEPT ![w] = "request"]
    /\ UNCHANGED <<testCases, result, resultsChan, closed, wg, mainPc, spawned,
                   closerPc, agg, report, crashed>>
    /\ UNCHANGED <<logVars, analyzeVars, matchVars, cRet>>

\* a plausible slip: the loop runs while currentIteration <= maxIterations
afterIterationOffByOne(iteration) ==
    IF iteration <= maxIterations THEN "request" ELSE "finish"

\* the loop condition, evaluated after currentIteration++
afterIteration(iteration) ==
    IF iteration < maxIterations THEN "request" ELSE "finish"

\* a plausible slip: a failed request is answered like an empty reply
afterErrorGoesOn(w) ==
    /\ pc' = [pc EXCEPT ![w] = "finish"]
    /\ result' = result

\* a failed request: ProcessChatMessage returns (nil, err), runAgentTest
\* returns the failed result
afterError(w) ==
    /\ pc' = [pc EXCEPT ![w] = "send"]
    /\ result' = [result EXCEPT ![w] = ErrorResult(testCases[w])]

\* a plausible slip: the loop goes on after a reply without tool calls
afterTextAsksAgain(l) ==
    IF l.currentIteration + 1 < maxIterations THEN "request" ELSE "finish"

\* a reply without tool calls: break
afterText(l) == "finish"

\* one model request and what the loop does with the reply, up to the
\* execution of its tool calls
ModelReply(w, reply) ==
    /\ Running /\ pc[w] = "request"
    /\ LET l == [loop[w] EXCEPT !.llmRequests = @ + 1, !.completion = reply]
       IN CASE reply.kind = "error" ->
                 /\ loop' = [loop EXCEPT ![w] = l]
                 /\ afterError(w)
            [] reply.kind = "nochoice" ->
                 \* completion.Choices[0] on an empty slice: a run-time panic
                 /\ loop' = [loop EXCEPT ![w] = l]
                 /\ pc' = [pc EXCEPT ![w] = "panic"]
                 /\ result' = result
            [] reply.kind = "message" /\ Len(reply.toolCalls) = 0 ->
                 /\ loop' = [loop EXCEPT ![w] =
                                [l EXCEPT !.responseMessage = reply.content]]
                 /\ pc' = [pc EXCEPT ![w] =
                              afterText([l EXCEPT !.responseMessage = reply.content])]
                 /\ result' = result
            [] reply.kind = "message" /\ Len(reply.toolCalls) > 0 ->
                 /\ loop' = [loop EXCEPT ![w] =
                                [l EXCEPT !.responseMessage = reply.content,
                                          !.messages =
                                              Append(@, AssistantToolCalls(reply.toolCalls)),
                                          !.pending = reply.toolCalls,
                                          !.iterationResults = <<>>]]
                 /\ pc' = [pc EXCEPT ![w] = "exec"]
                 /\ result' = result
    /\ UNCHANGED <<testCases, resultsChan, closed, wg, mainPc, spawned,
                   closerPc, agg, report, crashed>>
    /\ UNCHANGED <<logVars, analyzeVars, matchVars, cartVars>>

\* ExecuteToolCalls, one tool call; after the last one the results join the
\* trace and the iteration count grows
ExecTool(w) ==
    /\ Running /\ pc[w] = "exec"
    /\ locksStore(Head(loop[w].pending)) => CanLock
    /\ LET l == loop[w]
           done == executeToolCall(carts, Head(l.pending), SessionOf(w))
           results == Append(l.iterationResults, done.result)
       IN /\ carts' = done.carts
          /\ IF Len(l.pending) > 1
             THEN /\ loop' = [loop EXCEPT ![w] =
                                 [l EXCEPT !.pending = Tail(l.pending),
                                           !.iterationResults = results]]
                  /\ pc' = pc
             ELSE /\ loop' = [loop EXCEPT ![w] =
                                 [l EXCEPT !.pending = <<>>,
                                           !.iterationResults = <<>>,
                                           !.toolResults = @ \o results,
                                           !.messages =
                                               @ \o toolMessages(done.carts, results),
                                           !.currentIteration = @ + 1]]
                  /\ pc' = [pc EXCEPT ![w] = afterIteration(l.currentIteration + 1)]
    /\ UNCHANGED <<testCases, result, resultsChan, closed, wg, mainPc, spawned,
                   closerPc, agg, report, crashed>>
    /\ UNCHANGED <<logVars, analyzeVars, matchVars, cRet>>

\* after the loop: the fallback message, then GetCartSummary takes
\* cs.mutex.RLock()
EnterSummary(w) ==
    /\ Running /\ pc[w] = "finish"
    /\ pc' = [pc EXCEPT ![w] = "summary"]
    /\ UNCHANGED <<testCases, loop, result, resultsChan, closed, wg, mainPc,
                   spawned, closerPc, agg, report, crashed>>
    /\ UNCHANGED <<logVars, analyzeVars, matchVars, cartVars>>

\* a map write next to another access of the map is a data race; the run
\* time may detect it ("fatal error: concurrent map read and map write",
\* "concurrent map writes") and end the process at once
MapRaceThrow(w) ==
    /\ Running
    /\ \/ pc[w] = "summary"
       \/ pc[w] = "exec" /\ Head(loop[w].pending).Name = "view_cart"
    /\ MapRace(w)
    /\ crashed' = TRUE
    /\ UNCHANGED <<testCases, pc, loop, result, resultsChan, closed, wg, mainPc,
                   spawned, closerPc, agg, report>>
    /\ UNCHANGED <<logVars, analyzeVars, matchVars, cartVars>>

\* the end of ProcessChatMessage (getOrCreateCart under the read lock and
\* the ChatResponse) and the rest of runAgentTest (the evaluation); of two
\* racing map writes one may be lost
FinishTest(w) ==
    /\ Running /\ pc[w] = "summary"
    /\ \/ carts' = GetCartSummary(carts, SessionOf(w))
       \/ WriteRace(w) /\ carts' = carts
    /\ result' = [result EXCEPT ![w] =
                     EvaluatedResult(testCases[w], ChatResponse(loop[w], SessionOf(w)))]
    /\ pc' = [pc EXCEPT ![w] = "send"]
    /\ UNCHANGED <<testCases, loop, resultsChan, closed, wg, mainPc, spawned,
                   closerPc, agg, report, crashed>>
    /\ UNCHANGED <<logVars, analyzeVars, matchVars, cRet>>

\* resultsChan <- result: possible when the buffer has room
Send(w) ==
    /\ Running /\ pc[w] = "send"
    /\ ~closed
    /\ Len(resultsChan) < Len(testCases)
    /\ resultsChan' = Append(resultsChan, result[w])
    /\ pc' = [pc EXCEPT ![w] = "sent"]
    /\ UNCHANGED <<testCases, loop, result, closed, wg, mainPc, spawned,
                   closerPc, agg, report, crashed>>
    /\ UNCHANGED <<logVars, analyzeVars, matchVars, cartVars>>

\* the deferred wg.Done() of a goroutine that returns
WorkerDone(w) ==
    /\ Running /\ pc[w] = "sent"
    /\ wg' = wg - 1
    /\ pc' = [pc EXCEPT ![w] = "exited"]
    /\ UNCHANGED <<testCases, loop, result, resultsChan, closed, mainPc,
                   spawned, closerPc, agg, report, crashed>>
    /\ UNCHANGED <<logVars, analyzeVars, matchVars, cartVars>>

\* the deferred wg.Done() of a goroutine that panics: deferred calls run
\* before the run time ends the process
PanicUnwind(w) ==
    /\ Running /\ pc[w] = "panic"
    /\ wg' = wg - 1
    /\ pc' = [pc EXCEPT ![w] = "fatal"]
    /\ UNCHANGED <<testCases, loop, result, resultsChan, closed, mainPc,
                   spawned, closerPc, agg, report, crashed>>
    /\ UNCHANGED <<logVars, analyzeVars, matchVars, cartVars>>

\* nothing recovers the panic: the process exits
Crash ==
    /\ Running /\ \E w \in Workers : pc[w] = "fatal"
    /\ crashed' = TRUE
    /\ UNCHANGED <<testCases, pc, loop, result, resultsChan, closed, wg, mainPc,
                   spawned, closerPc, agg, report>>
    /\ UNCHANGED <<logVars, analyzeVars, matchVars, cartVars>>

\* wg.Wait() returns; close(resultsChan)
CloseChan ==
    /\ Running /\ closerPc = "wait" /\ wg = 0
    /\ closed' = TRUE
    /\ closerPc' = "exited"
    /\ UNCHANGED <<testCases, pc, loop, result, resultsChan, wg, mainPc,
                   spawned, agg, report, crashed>>
    /\ UNCHANGED <<logVars, analyzeVars, matchVars, cartVars>>

\* a plausible slip: failures are not counted
collectForgetsFailures(a, r) ==
    [results |-> Append(a.results, r),
     passedTests |-> IF r.Success THEN a.passedTests + 1 ELSE a.passedTests,
     failedTests |-> a.failedTests,
     totalLLMRequests |->
        IF r.Response # None
        THEN a.totalLLMRequests + r.Response.LLMRequests
        ELSE a.totalLLMRequests]

\* the body of the collecting loop for one received result
collect(a, r) ==
    [results |-> Append(a.results, r),
     passedTests |-> IF r.Success THEN a.passedTests + 1 ELSE a.passedTests,
     failedTests |-> IF r.Success THEN a.failedTests ELSE a.failedTests + 1,
     totalLLMRequests |->
        IF r.Response # None
        THEN a.totalLLMRequests + r.Response.LLMRequests
        ELSE a.totalLLMRequests]

\* for result := range resultsChan, one result
Receive ==
    /\ Running /\ mainPc = "collect" /\ Len(resultsChan) > 0
    /\ agg' = collect(agg, Head(resultsChan))
    /\ resultsChan' = Tail(resultsChan)
    /\ UNCHANGED <<testCases, pc, loop, result, closed, wg, mainPc, spawned,
                   closerPc, report, crashed>>
    /\ UNCHANGED <<logVars, analyzeVars, matchVars, cartVars>>

AgentReport(a) ==
    [Results |-> a.results, TotalTests |-> Len(a.results),
     PassedTests |-> a.passedTests, FailedTests |-> a.failedTests,
     TotalLLMRequests |-> a.totalLLMRequests]

\* the range loop ends on the closed, drained channel; the report is returned
ReturnReport ==
    /\ Running /\ mainPc = "collect" /\ Len(resultsChan) = 0 /\ closed
    /\ report' = AgentReport(agg)
    /\ mainPc' = "returned"
    /\ UNCHANGED <<testCases, pc, loop, result, resultsChan, closed, wg,
                   spawned, closerPc, agg, crashed>>
    /\ UNCHANGED <<logVars, analyzeVars, matchVars, cartVars>>

WorkerStep(w, replies) ==
    \/ BeginTest(w)
    \/ \E reply \in replies : ModelReply(w, reply)
    \/ ExecTool(w)
    \/ EnterSummary(w)
    \/ MapRaceThrow(w)
    \/ FinishTest(w)
    \/ Send(w)
    \/ WorkerDone(w)
    \/ PanicUnwind(w)

RunnerStep == Spawn \/ StartCloser \/ CloseChan \/ Receive \/ ReturnReport \/ Crash

\* one test case, every reply of LoopReplies
LoopInit ==
    /\ MatchIdle /\ CartIdle /\ AnalyzeIdle /\ LogIdle
    /\ \E tc \in {CaseHello, CaseAdd, CaseRefill} : SuiteStart(<<tc>>)

LoopNext == RunnerStep \/ \E w \in Workers : WorkerStep(w, LoopReplies)

SpecLoop == LoopInit /\ [][LoopNext]_vars

\* every goroutine that can take a step eventually takes one, and every
\* model request is answered
LoopFairness ==
    /\ WF_vars(RunnerStep)
    /\ \A w \in {1} : WF_vars(WorkerStep(w, LoopReplies))

SpecLoopFair == SpecLoop /\ LoopFairness

\* NumTests test cases run concurrently
SuiteInit ==
    /\ MatchIdle /\ CartIdle /\ AnalyzeIdle /\ LogIdle
    /\ SuiteStart([i \in 1..NumTests |-> SuiteCases[((i - 1) % Len(SuiteCases)) + 1]])

SuiteNext == RunnerStep \/ \E w \in Workers : WorkerStep(w, SuiteReplies)

SpecSuite == SuiteInit /\ [][SuiteNext]_vars

SuiteFairness ==
    /\ WF_vars(RunnerStep)
    /\ \A w \in 1..NumTests : WF_vars(WorkerStep(w, SuiteReplies))

SpecSuiteFair == SpecSuite /\ SuiteFairness

(***************************************************************************)
(* The Batch Analyzer: analyzeModel and the two confusion matrices.        *)
(* Precision, recall and F1 are float64 in the code; they are fractions    *)
(* here, kept as the code computes them.                                   *)
(***************************************************************************)
\* an AgentTestResult as the analyzer reads it from a result file: the test
\* case with its variants, and the response (None for null) with its trace
LoadedResult(variantPaths, response) ==
    [TestCase |->
        [ExpectedToolVariants |->
            [i \in 1..Len(variantPaths) |->
                [Name |-> VariantNames[i], Tools |-> variantPaths[i]]]],
     Response |-> response]

LoadedResponse(toolNames) ==
    [ToolCalls |-> [i \in 1..Len(toolNames) |-> [ToolName |-> toolNames[i]]]]

\* shouldCallAnyTool
shouldCallAnyTool(testCase) ==
    \E i \in 1..Len(testCase.ExpectedToolVariants) :
        Len(testCase.ExpectedToolVariants[i].Tools) > 0

\* the flattening loop of getExpectedTools, from variant i
RECURSIVE expectedToolsFrom(_, _)
expectedToolsFrom(variants, i) ==
    IF i > Len(variants) THEN <<>>
    ELSE [k \in 1..Len(variants[i].Tools) |-> variants[i].Tools[k].Name]
         \o expectedToolsFrom(variants, i + 1)

\* a plausible slip: only the first variant is asked for its tools
getExpectedToolsFirstVariant(testCase) ==
    IF Len(testCase.ExpectedToolVariants) = 0 THEN <<>>
    ELSE LET tools == testCase.ExpectedToolVariants[1].Tools
         IN [k \in 1..Len(tools) |-> tools[k].Name]

\* getExpectedTools
getExpectedTools(testCase) == expectedToolsFrom(testCase.ExpectedToolVariants, 1)

\* getActualTools
getActualTools(response) ==
    IF response = None THEN <<>>
    ELSE [k \in 1..Len(response.ToolCalls) |-> response.ToolCalls[k].ToolName]

\* matchesVariant
matchesVariant(expectedTools, actualTools) ==
    IF Len(expectedTools) # Len(actualTools) THEN FALSE
    ELSE \A i \in 1..Len(expectedTools) : expectedTools[i].Name = actualTools[i]

\* matchesAnyVariant
matchesAnyVariant(testCase, actualTools) ==
    \E i \in 1..Len(testCase.ExpectedToolVariants) :
        matchesVariant(testCase.ExpectedToolVariants[i].Tools, actualTools)

\* a plausible slip: a result without a response is counted in no cell
invocationCellDropsNil(r) ==
    LET shouldCallTool == shouldCallAnyTool(r.TestCase)
        didCallTool == IF r.Response # None
                       THEN Len(r.Response.ToolCalls) > 0 ELSE FALSE
    IN IF r.Response = None THEN "none"
       ELSE IF shouldCallTool /\ didCallTool THEN "tp"
       ELSE IF ~shouldCallTool /\ ~didCallTool THEN "tn"
       ELSE IF ~shouldCallTool /\ didCallTool THEN "fp"
       ELSE "fn"

\* the cell one result is counted in by calculateToolInvocationMetrics
invocationCell(r) ==
    LET shouldCallTool == shouldCallAnyTool(r.TestCase)
        didCallTool == IF r.Response # None
                       THEN Len(r.Response.ToolCalls) > 0 ELSE FALSE
    IN IF shouldCallTool /\ didCallTool THEN "tp"
       ELSE IF ~shouldCallTool /\ ~didCallTool THEN "tn"
       ELSE IF ~shouldCallTool /\ didCallTool THEN "fp"
       ELSE "fn"

\* a plausible slip: the called tools are looked up among the expected ones
\* without regard to their order
selectionCellIgnoresOrder(r) ==
    LET expectedTools == getExpectedTools(r.TestCase)
        actualTools == getActualTools(r.Response)
    IN IF Len(expectedTools) = 0 /\ Len(actualTools) = 0 THEN "tn"
       ELSE IF Len(expectedTools) = 0 /\ Len(actualTools) > 0 THEN "fp"
       ELSE IF Len(expectedTools) > 0 /\ Len(actualTools) = 0 THEN "fn"
       ELSE IF \A k \in DOMAIN actualTools :
                  \E j \in DOMAIN expectedTools : expectedTools[j] = actualTools[k]
            THEN "tp"
       ELSE "fp"

\* a plausible slip: wrong tools are counted in no cell
selectionCellSkipsWrongTools(r) ==
    LET expectedTools == getExpectedTools(r.TestCase)
        actualTools == getActualTools(r.Response)
    IN IF Len(expectedTools) = 0 /\ Len(actualTools) = 0 THEN "tn"
       ELSE IF Len(expectedTools) = 0 /\ Len(actualTools) > 0 THEN "fp"
       ELSE IF Len(expectedTools) > 0 /\ Len(actualTools) = 0 THEN "fn"
       ELSE IF matchesAnyVariant(r.TestCase, actualTools) THEN "tp"
       ELSE "none"

\* the cell one result is counted in by calculateToolSelectionMetrics
selectionCell(r) ==
    LET expectedTools == getExpectedTools(r.TestCase)
        actualTools == getActualTools(r.Response)
    IN IF Len(expectedTools) = 0 /\ Len(actualTools) = 0 THEN "tn"
       ELSE IF Len(expectedTools) = 0 /\ Len(actualTools) > 0 THEN "fp"
       ELSE IF Len(expectedTools) > 0 /\ Len(actualTools) = 0 THEN "fn"
       ELSE IF matchesAnyVariant(r.TestCase, actualTools) THEN "tp"
       ELSE "fp"

NoCounts == [tp |-> 0, fp |-> 0, tn |-> 0, fn |-> 0]

\* tp++, fp++, tn++ or fn++
countIn(counts, cell) ==
    IF cell \in DOMAIN counts THEN [counts EXCEPT ![cell] = @ + 1] ELSE counts

\* the loop of calculateToolInvocationMetrics over the results, from index i
RECURSIVE invocationCounts(_, _, _)
invocationCounts(results, i, counts) ==
    IF i > Len(results) THEN counts
    ELSE invocationCounts(results, i + 1, countIn(counts, invocationCell(results[i])))

\* the loop of calculateToolSelectionMetrics over the results, from index i
RECURSIVE selectionCounts(_, _, _)
selectionCounts(results, i, counts) ==
    IF i > Len(results) THEN counts
    ELSE selectionCounts(results, i + 1, countIn(counts, selectionCell(results[i])))

Fraction(num, den) == [num |-> num, den |-> den]
Zero == Fraction(0, 1)
IsPositive(f) == f.num > 0

\* a plausible slip: recall divides by the calls made, not the calls expected
calculateMetricsRecallOverCalled(tp, fp, tn, fn) ==
    LET precision == IF tp + fp > 0 THEN Fraction(tp, tp + fp) ELSE Zero
        recall == IF tp + fp > 0 THEN Fraction(tp, tp + fp) ELSE Zero
        f1 == IF IsPositive(precision) \/ IsPositive(recall)
              THEN Fraction(2 * precision.num * recall.num,
                            precision.num * recall.den + recall.num * precision.den)
              ELSE Zero
    IN [Precision |-> precision, Recall |-> recall, F1 |-> f1,
        TruePositives |-> tp, FalsePositives |-> fp,
        TrueNegatives |-> tn, FalseNegatives |-> fn]

\* calculateMetrics
calculateMetrics(tp, fp, tn, fn) ==
    LET precision == IF tp + fp > 0 THEN Fraction(tp, tp + fp) ELSE Zero
        recall == IF tp + fn > 0 THEN Fraction(tp, tp + fn) ELSE Zero
        \* 2 * (precision * recall) / (precision + recall)
        f1 == IF IsPositive(precision) \/ IsPositive(recall)
              THEN Fraction(2 * precision.num * recall.num,
                            precision.num * recall.den + recall.num * precision.den)
              ELSE Zero
    IN [Precision |-> precision, Recall |-> recall, F1 |-> f1,
        TruePositives |-> tp, FalsePositives |-> fp,
        TrueNegatives |-> tn, FalseNegatives |-> fn]

\* calculateToolInvocationMetrics
calculateToolInvocationMetrics(results) ==
    LET c == invocationCounts(results, 1, NoCounts)
    IN calculateMetrics(c.tp, c.fp, c.tn, c.fn)

\* calculateToolSelectionMetrics
calculateToolSelectionMetrics(results) ==
    LET c == selectionCounts(results, 1, NoCounts)
    IN calculateMetrics(c.tp, c.fp, c.tn, c.fn)

\* analyzeModel, after the result files have been loaded
analyzeModel(allResults) ==
    IF Len(allResults) = 0
    THEN [err |-> "no test results found", analysis |-> None]
    ELSE [err |-> "",
          analysis |->
             [ToolInvocation |-> calculateToolInvocationMetrics(allResults),
              ToolSelection |-> calculateToolSelectionMetrics(allResults),
              TotalTests |-> Len(allResults)]]

\* a model bound: the number of results loaded for one model
MaxResults == 3

\* the results a file may hold
LoadedResults ==
    { LoadedResult(<<>>, None),
      LoadedResult(<<>>, LoadedResponse(<<"view_cart">>)),
      LoadedResult(<<(<<>>)>>, LoadedResponse(<<>>)),
      LoadedResult(<<(<<ExpAdd>>)>>, None),
      LoadedResult(<<(<<ExpAdd>>)>>, LoadedResponse(<<"add_to_cart">>)),
      LoadedResult(<<(<<ExpAdd>>)>>, LoadedResponse(<<"view_cart">>)),
      LoadedResult(<<(<<ExpAdd>>), <<ExpSearch, ExpAdd>>>>,
                   LoadedResponse(<<"search_products", "add_to_cart">>)),
      LoadedResult(<<(<<ExpAdd>>), <<ExpSearch, ExpAdd>>>>, LoadedResponse(<<>>)),
      LoadedResult(<<(<<ExpAdd>>), <<ExpSearch, ExpAdd>>>>,
                   LoadedResponse(<<"add_to_cart", "search_products">>)),
      LoadedResult(<<(<<>>), <<ExpAdd>>>>, LoadedResponse(<<>>)) }

AnalyzeInit ==
    /\ aResults \in SeqsUpTo(LoadedResults, MaxResults)
    /\ aOut = None
    /\ aCounts = <<0, 0, 0, 0>> /\ aMetrics = None
    /\ aFiles = <<>> /\ aReport = None
    /\ MatchIdle /\ CartIdle /\ SuiteIdle /\ LogIdle

AnalyzeModel ==
    /\ aOut = None
    /\ aOut' = analyzeModel(aResults)
    /\ UNCHANGED <<aResults, aCounts, aMetrics, aFiles, aReport>>
    /\ UNCHANGED <<logVars, matchVars, cartVars, suiteVars>>

AnalyzeNext == AnalyzeModel

SpecAnalyze == AnalyzeInit /\ [][AnalyzeNext]_vars

(***************************************************************************)
(* analyzeBatch: the result files of a batch directory are grouped by      *)
(* model, each model's files are loaded and analyzed, and the models are   *)
(* sorted by their tool-selection F1.  A file is known by the model name   *)
(* that groupFilesByModel reads from its name, by its place in the         *)
(* directory walk, and by what loadResultFile finds in it.                 *)
(***************************************************************************)
\* os.ReadFile or json.Unmarshal fails on the file
Unreadable == [readable |-> FALSE, results |-> <<>>]

\* the file holds an AgentReport with these results
Readable(results) == [readable |-> TRUE, results |-> results]

ResultFile(model, run, content) == [Model |-> model, Run |-> run, Content |-> content]

\* loadResultFile
loadResultFile(file) ==
    IF ~file.Content.readable THEN [err |-> "unreadable", results |-> <<>>]
    ELSE [err |-> "", results |-> file.Content.results]

\* groupFilesByModel: the keys of the map, and the files under a key in the
\* order of the directory walk
modelNamesOf(files) == {files[i].Model : i \in DOMAIN files}

RECURSIVE filesOfModel(_, _, _)
filesOfModel(files, modelName, i) ==
    IF i > Len(files) THEN <<>>
    ELSE IF files[i].Model = modelName
         THEN <<files[i]>> \o filesOfModel(files, modelName, i + 1)
         ELSE filesOfModel(files, modelName, i + 1)

groupFilesByModel(files) ==
    [modelName \in modelNamesOf(files) |-> filesOfModel(files, modelName, 1)]

\* a plausible slip: the results of a file replace those loaded before it
RECURSIVE loadFilesKeepsLast(_, _, _)
loadFilesKeepsLast(files, i, allResults) ==
    IF i > Len(files) THEN [err |-> "", results |-> allResults]
    ELSE LET loaded == loadResultFile(files[i])
         IN IF loaded.err # ""
            THEN [err |-> "failed to load file", results |-> <<>>]
            ELSE loadFilesKeepsLast(files, i + 1, loaded.results)

\* the loading loop of analyzeModel over the files, from index i
RECURSIVE loadFiles(_, _, _)
loadFiles(files, i, allResults) ==
    IF i > Len(files) THEN [err |-> "", results |-> allResults]
    ELSE LET loaded == loadResultFile(files[i])
         IN IF loaded.err # ""
            THEN [err |-> "failed to load file", results |-> <<>>]
            ELSE loadFiles(files, i + 1, allResults \o loaded.results)

\* analyzeModel, from the files of one model
analyzeModelOfFiles(modelName, files) ==
    LET loaded == loadFiles(files, 1, <<>>)
    IN IF loaded.err # "" THEN [err |-> loaded.err, analysis |-> None]
       ELSE LET analyzed == analyzeModel(loaded.results)
            IN IF analyzed.err # "" THEN analyzed
               ELSE [err |-> "",
                     analysis |->
                        [ModelName |-> modelName,
                         ToolInvocation |-> analyzed.analysis.ToolInvocation,
                         ToolSelection |-> analyzed.analysis.ToolSelection,
                         TotalTests |-> analyzed.analysis.TotalTests,
                         TotalRuns |-> Len(files),
                         ResultFiles |-> files]]

\* f > g for two fractions with positive denominators
IsGreater(f, g) == f.num * g.den > g.num * f.den

\* a plausible slip: the worst model comes first
lessByF1Ascending(a, b) == IsGreater(b.ToolSelection.F1, a.ToolSelection.F1)

\* the less function handed to sort.Slice
lessByF1(a, b) == IsGreater(a.ToolSelection.F1, b.ToolSelection.F1)

\* the orders in which the elements of a list can stand
Rearrangements(list) ==
    { [i \in DOMAIN list |-> list[p[i]]] :
        p \in { q \in [DOMAIN list -> DOMAIN list] :
                   \A i, j \in DOMAIN list : i # j => q[i] # q[j] } }

\* sort.Slice with lessByF1: the sort is not stable, so models that neither
\* is less than the other may come out in either order
sortSlice(models) ==
    { sorted \in Rearrangements(models) :
        \A i, j \in DOMAIN sorted : i < j => ~lessByF1(sorted[j], sorted[i]) }

\* the loop of analyzeBatch over the map, in one iteration order of the map
RECURSIVE analyzeEach(_, _, _)
analyzeEach(modelFiles, order, i) ==
    IF i > Len(order) THEN <<>>
    ELSE LET analyzed == analyzeModelOfFiles(order[i], modelFiles[order[i]])
         IN IF analyzed.err # ""
            THEN analyzeEach(modelFiles, order, i + 1)     \* warning, continue
            ELSE <<analyzed.analysis>> \o analyzeEach(modelFiles, order, i + 1)

RECURSIVE sumOfField(_, _, _)
sumOfField(models, field, i) ==
    IF i > Len(models) THEN 0
    ELSE models[i][field] + sumOfField(models, field, i + 1)

\* generateSummary: what the text says
generateSummary(models) ==
    IF Len(models) = 0 THEN [text |-> "No models analyzed."]
    ELSE IF Len(models) = 1
    THEN [text |-> "Analyzed 1 model", model |-> models[1].ModelName,
          tests |-> models[1].TotalTests, runs |-> models[1].TotalRuns]
    ELSE [text |-> "Analyzed models", count |-> Len(models),
          tests |-> sumOfField(models, "TotalTests", 1),
          runs |-> sumOfField(models, "TotalRuns", 1),
          best |-> models[1].ModelName,
          bestF1 |-> models[1].ToolSelection.F1]

BatchAnalysisReport(models) ==
    [err |-> "", Models |-> models, Summary |-> generateSummary(models)]

\* a model bound: the number of result files in the batch directory
MaxFiles == 3

ModelNames == {"gpt-4", "claude-3-sonnet", "llama-3"}

ResultOfRightTool == LoadedResult(<<(<<ExpAdd>>)>>, LoadedResponse(<<"add_to_cart">>))
ResultOfWrongTool == LoadedResult(<<(<<ExpAdd>>)>>, LoadedResponse(<<"view_cart">>))
ResultOfNoTool == LoadedResult(<<(<<ExpAdd>>)>>, None)

\* what a result file may hold
FileContents ==
    { Unreadable,
      Readable(<<>>),
      Readable(<<ResultOfRightTool>>),
      Readable(<<ResultOfWrongTool, ResultOfRightTool>>),
      Readable(<<ResultOfNoTool>>) }

\* aFiles is one of the lists of files findResultFiles may return
BatchInit ==
    /\ \E n \in 0..MaxFiles :
          \E names \in [1..n -> ModelNames], contents \in [1..n -> FileContents] :
              aFiles = [k \in 1..n |-> ResultFile(names[k], k, contents[k])]
    /\ aReport = None
    /\ aResults = <<>> /\ aOut = None
    /\ aCounts = <<0, 0, 0, 0>> /\ aMetrics = None
    /\ MatchIdle /\ CartIdle /\ SuiteIdle /\ LogIdle

AnalyzeBatch ==
    /\ aReport = None
    /\ IF Len(aFiles) = 0
       THEN aReport' = [err |-> "no result files found"]
       ELSE \E order \in Rearrangements(SetToSeq(modelNamesOf(aFiles))) :
               \E models \in sortSlice(analyzeEach(groupFilesByModel(aFiles), order, 1)) :
                   aReport' = BatchAnalysisReport(models)
    /\ UNCHANGED <<aResults, aOut, aCounts, aMetrics, aFiles>>
    /\ UNCHANGED <<logVars, matchVars, cartVars, suiteVars>>

BatchNext == AnalyzeBatch

SpecBatch == BatchInit /\ [][BatchNext]_vars

(***************************************************************************)
(* calculateMetrics on its own: the four counts are drawn from a small set *)
(* that holds the documented example (18 true positives, 2 false           *)
(* negatives) and the zero denominators.                                   *)
(***************************************************************************)
CountValues == {0, 1, 2, 18}

MetricsInit ==
    /\ aCounts \in CountValues \X CountValues \X CountValues \X CountValues
    /\ aMetrics = None
    /\ aResults = <<>> /\ aOut = None
    /\ aFiles = <<>> /\ aReport = None
    /\ MatchIdle /\ CartIdle /\ SuiteIdle /\ LogIdle

CalculateMetrics ==
    /\ aMetrics = None
    /\ aMetrics' = calculateMetrics(aCounts[1], aCounts[2], aCounts[3], aCounts[4])
    /\ UNCHANGED <<aResults, aOut, aCounts, aFiles, aReport>>
    /\ UNCHANGED <<logVars, matchVars, cartVars, suiteVars>>

MetricsNext == CalculateMetrics

SpecMetrics == MetricsInit /\ [][MetricsNext]_vars

(***************************************************************************)
(* The request log.  Every goroutine of RunAgentTestSuite calls LogRequest *)
(* or LogError once per model request, on the one RequestLogger of the     *)
(* run; both end in writeLogEntry, which writes the record and then the    *)
(* newline with two calls on the shared file and takes no lock.  A single  *)
(* call on an os.File is not split by another goroutine's call.            *)
(***************************************************************************)
\* a model bound: the model requests one test case logs
MaxLogEntries == 2

LogWriters == {1, 2}

\* json.Marshal(entry), and the "\n" that follows it
LogEntry(testCase, iteration, kind) ==
    [TestCase |-> testCase, Iteration |-> iteration, kind |-> kind]
Newline == [newline |-> TRUE]

LogInit ==
    /\ logFile = <<>>
    /\ logPc = [w \in LogWriters |-> "idle"]
    /\ logCount = [w \in LogWriters |-> 0]
    /\ MatchIdle /\ CartIdle /\ SuiteIdle /\ AnalyzeIdle

\* LogRequest or LogError up to rl.logFile.Write(jsonData)
WriteJson(w) ==
    /\ logPc[w] = "idle" /\ logCount[w] < MaxLogEntries
    /\ \E kind \in {"response", "error"} :
          logFile' = Append(logFile, LogEntry(w, logCount[w] + 1, kind))
    /\ logPc' = [logPc EXCEPT ![w] = "newline"]
    /\ UNCHANGED logCount
    /\ UNCHANGED <<analyzeVars, matchVars, cartVars, suiteVars>>

\* rl.logFile.WriteString("\n") and Sync
WriteNewline(w) ==
    /\ logPc[w] = "newline"
    /\ logFile' = Append(logFile, Newline)
    /\ logPc' = [logPc EXCEPT ![w] = "idle"]
    /\ logCount' = [logCount EXCEPT ![w] = @ + 1]
    /\ UNCHANGED <<analyzeVars, matchVars, cartVars, suiteVars>>

LogNext == \E w \in LogWriters : WriteJson(w) \/ WriteNewline(w)

SpecLog == LogInit /\ [][LogNext]_vars

(***************************************************************************)
(* What the claims say of the matcher, stated without the code's loops.    *)
(***************************************************************************)
\* the value of an expected key and of the actual key are equal for the
\* matcher: the printed forms agree up to letter case
EqualValue(e, a) == EqualFold(Sprintf(e), Sprintf(a))

CallAgrees(expected, actual) ==
    /\ expected.Name = actual.Name
    /\ \A key \in DOMAIN expected.Arguments :
          /\ key \in DOMAIN actual.Arguments
          /\ EqualValue(expected.Arguments[key], actual.Arguments[key])

VariantAgrees(tools, actualTools) ==
    /\ Len(tools) = Len(actualTools)
    /\ \A i \in 1..Len(tools) : CallAgrees(tools[i], actualTools[i])

Evaluated == mOut # None
Variants == mTestCase.ExpectedToolVariants
ActualNow == actualToolsOf(mTrace)

\* C1: with at least one variant, Success holds exactly when some variant has
\* the length of the trace and agrees with it position by position (same
\* name, every expected key present with an equal value); keys only the
\* actual call has do not matter, and a trace whose length differs from a
\* variant's, or that has the variant's calls in another order, does not
\* match that variant.
C1_MatcherIffExactVariant ==
    (Evaluated /\ Len(Variants) >= 1) =>
        /\ mOut.success <=>
              \E v \in 1..Len(Variants) : VariantAgrees(Variants[v].Tools, ActualNow)
        /\ \A v \in 1..Len(Variants) :
              (\/ Len(Variants[v].Tools) # Len(ActualNow)
               \/ \E i \in 1..Len(ActualNow) :
                     Variants[v].Tools[i].Name # ActualNow[i].Name)
              => ~(mOut.success /\ mOut.path = Variants[v].Name)

\* a pass on a trace whose call has another letter case and a key the
\* expected call does not have
C1_Witness ==
    /\ Evaluated /\ Len(Variants) >= 1 /\ mOut.success
    /\ Len(mTrace) = 2
    /\ \E i \in 1..Len(ActualNow) : "note" \in DOMAIN ActualNow[i].Arguments

\* C2: without variants, Success holds exactly when the trace is empty, and a
\* pass names the path "no_tools_expected".
C2_NoVariantsIffEmptyTrace ==
    (Evaluated /\ Len(Variants) = 0) =>
        /\ mOut.success <=> (Len(mTrace) = 0)
        /\ mOut.success => mOut.path = "no_tools_expected"

C2_Witness ==
    Evaluated /\ Len(Variants) = 0 /\ Len(mTrace) = 0 /\ mOut.success


(***************************************************************************)
(* What the claims say of the Cart Store.                                  *)
(***************************************************************************)
RECURSIVE SumOver(_, _)
SumOver(f, S) ==
    IF S = {} THEN 0
    ELSE LET x == CHOOSE y \in S : TRUE IN f[x] + SumOver(f, S \ {x})

CartArithmetic(cart) ==
    LET lines == DOMAIN cart.Items
    IN /\ \A i \in lines :
             cart.Items[i].Subtotal = cart.Items[i].Quantity * cart.Items[i].Price
       /\ cart.Total =
             SumOver([i \in lines |-> cart.Items[i].Quantity * cart.Items[i].Price],
                     lines)
       /\ cart.ItemCount = SumOver([i \in lines |-> cart.Items[i].Quantity], lines)

\* C10: in every reachable state of the Cart Store each cart's Total is the
\* sum over its lines of Quantity x Price, each line's Subtotal is its
\* Quantity x Price, and ItemCount is the sum of the lines' quantities.
C10_CartArithmetic ==
    \A s \in Sessions : carts[s] # NoCart => CartArithmetic(carts[s])

\* a cart of two lines, quantities 2 and 1 (item count 3), left by a removal
C10_Witness ==
    \E s \in Sessions :
        /\ carts[s] # NoCart
        /\ Len(carts[s].Items) = 2
        /\ carts[s].Items[1].Quantity = 2
        /\ carts[s].Items[2].Quantity = 1
        /\ carts[s].ItemCount = 3
        /\ carts[s].Total = 2 * carts[s].Items[1].Price + carts[s].Items[2].Price
        /\ cRet # None /\ cRet.op = "RemoveFromCart"

(***************************************************************************)
(* What the claims say of the agent loop.                                  *)
(***************************************************************************)
\* the last answer of the model endpoint to worker w
Answered(w) == loop[w].completion # None
FailedRequest(w) == Answered(w) /\ loop[w].completion.kind = "error"
NoToolReply(w) ==
    /\ Answered(w)
    /\ loop[w].completion.kind = "message"
    /\ Len(loop[w].completion.toolCalls) = 0

\* ProcessChatMessage is over for worker w
Finished(w) == pc[w] \in {"send", "sent", "exited", "panic", "fatal"}

\* the session's cart holds what it held, but for its lazy creation
SameCartContent(w) ==
    \/ carts'[SessionOf(w)] = carts[SessionOf(w)]
    \/ /\ carts[SessionOf(w)] = NoCart
       /\ carts'[SessionOf(w)] = EmptyCart(SessionOf(w))

\* C3: ProcessChatMessage never issues more than 5 model requests for one
\* test case, and whatever the model answers to each request, the call
\* eventually ends.
C3_TerminatesWithinFiveRequests ==
    /\ [](\A w \in Workers : loop[w].llmRequests <= 5)
    /\ <>(\A w \in Workers : Finished(w))

\* five requests were issued, every one answered with tool calls, and the
\* call has returned
C3_Witness ==
    \E w \in Workers :
        /\ loop[w].llmRequests = 5
        /\ loop[w].currentIteration = 5
        /\ pc[w] = "send"

\* C4: the returned message is the fallback message exactly when the
\* iteration count reached 5, which takes five requests all answered with
\* tool calls; otherwise it is the text of the last reply. At the cap the
\* call still returns a response without error, and the runner scores the
\* collected trace.
C4_FallbackIffCapReached ==
    \A w \in Workers :
        (result[w] # None /\ result[w].Response # None) =>
            LET response == result[w].Response
                capped == loop[w].currentIteration = 5
            IN /\ (response.Message = FallbackMessage) <=> capped
               /\ capped <=> (response.LLMRequests = 5 /\ ~NoToolReply(w))
               /\ ~capped => response.Message = loop[w].completion.content
               /\ response.ToolCalls = loop[w].toolResults
               /\ result[w].ErrorMessage = ""
               /\ result[w].Success =
                     evaluateAgentResponse(testCases[w], response.ToolCalls).success

\* the cap was reached: the result carries the fallback message, no error
\* and the whole trace of the five iterations
C4_Witness ==
    \E w \in Workers :
        /\ result[w] # None /\ result[w].Response # None
        /\ result[w].Response.Message = FallbackMessage
        /\ result[w].ErrorMessage = ""
        /\ Len(result[w].Response.ToolCalls) >= 5
        /\ loop[w].completion.content = "c"

\* C5: after a reply without tool calls the loop is over: the call goes to
\* its end, no request is issued and no tool is executed any more, and the
\* message of the returned response is the content of that reply.
C5_NoToolReplyEndsLoop ==
    /\ [](\A w \in Workers : NoToolReply(w) =>
             /\ pc[w] \in {"finish", "summary", "send", "sent", "exited"}
             /\ loop[w].pending = <<>>
             /\ result[w] # None =>
                   /\ result[w].Response # None
                   /\ result[w].Response.Message = loop[w].completion.content
                   /\ result[w].Response.LLMRequests = loop[w].llmRequests)
    /\ [][\A w \in Workers : NoToolReply(w) =>
             /\ loop'[w] = loop[w]
             /\ SameCartContent(w)]_vars

\* the second reply had no tool calls, after a first one with tool calls,
\* and the response was returned with its text
C5_Witness ==
    \E w \in Workers :
        /\ NoToolReply(w)
        /\ loop[w].llmRequests = 2
        /\ Len(loop[w].toolResults) > 0
        /\ result[w] # None
        /\ result[w].Response.Message = "t2"

\* C6: after a failed model request the call is over at once: no request
\* and no tool execution follows, and the result of the test has
\* Success = false, the error's message and no Response, whatever earlier
\* iterations executed.
C6_FailedRequestAborts ==
    /\ [](\A w \in Workers : FailedRequest(w) =>
             /\ pc[w] \in {"send", "sent", "exited"}
             /\ result[w] # None
             /\ result[w].Success = FALSE
             /\ result[w].ErrorMessage # ""
             /\ result[w].Response = None)
    /\ [][\A w \in Workers : FailedRequest(w) =>
             /\ loop'[w] = loop[w]
             /\ result'[w] = result[w]
             /\ carts'[SessionOf(w)] = carts[SessionOf(w)]]_vars

\* the third request failed after two iterations had executed tool calls
C6_Witness ==
    \E w \in Workers :
        /\ FailedRequest(w)
        /\ loop[w].llmRequests = 3
        /\ Len(loop[w].toolResults) >= 2
        /\ pc[w] = "send"
        /\ result[w].Response = None

(***************************************************************************)
(* What the claims say of the suite.                                       *)
(***************************************************************************)
\* C7: every dispatched test case contributes one result: the suite
\* eventually returns a report with as many results as test cases, whatever
\* the model answers to each request.
C7_EveryUnitReported ==
    <>(mainPc = "returned" /\ Len(report.Results) = Len(testCases))

CountSuccess(results, b) ==
    Cardinality({i \in DOMAIN results : results[i].Success = b})

\* C8: in a returned report TotalTests is the number of results,
\* PassedTests the number of successful ones, FailedTests the number of
\* failed ones, and the two add up to TotalTests.
C8_ReportCounts ==
    report # None =>
        /\ report.TotalTests = Len(report.Results)
        /\ report.PassedTests = CountSuccess(report.Results, TRUE)
        /\ report.FailedTests = CountSuccess(report.Results, FALSE)
        /\ report.PassedTests + report.FailedTests = report.TotalTests

\* a report of one passed and one failed test, the failed one received first
C8_Witness ==
    /\ report # None
    /\ report.PassedTests = 1
    /\ report.FailedTests = 1
    /\ report.Results[1].Success = FALSE
    /\ report.Results[2].Success = TRUE

\* C9: a worker about to send finds the channel open and with room; each
\* worker sends once; and when the channel is closed every worker has sent.
C9_NoBlockedOrLostSend ==
    /\ \A w \in Workers :
          pc[w] = "send" => (~closed /\ Len(resultsChan) < Len(testCases))
    /\ Len(resultsChan) + Len(agg.results) =
          Cardinality({w \in Workers : pc[w] \in {"sent", "exited"}})
    /\ closed => \A w \in Workers : pc[w] \in {"sent", "exited"}

(***************************************************************************)
(* What the claims say of the Cart Store operations.  A step of the Cart   *)
(* Store specification is a call of the method cRet' names.                *)
(***************************************************************************)
Called(op) == cRet' # None /\ cRet'.op = op

\* what a reader of the session's cart sees; a session without a cart reads
\* as the empty cart getOrCreateCart would create
CartView(cs, s) ==
    IF cs[s] = NoCart THEN [Items |-> <<>>, Total |-> 0, ItemCount |-> 0]
    ELSE [Items |-> cs[s].Items, Total |-> cs[s].Total,
          ItemCount |-> cs[s].ItemCount]

\* C11: after CheckoutCart the session's cart has no line, Total 0 and
\* ItemCount 0, and the CheckoutResult has Success = true and the Total the
\* cart had just before.
C11_CheckoutEmptiesCart ==
    [][Called("CheckoutCart") =>
          LET s == cRet'.session
          IN /\ carts'[s] # NoCart
             /\ carts'[s].Items = <<>>
             /\ carts'[s].Total = 0
             /\ carts'[s].ItemCount = 0
             /\ cRet'.err = None
             /\ cRet'.result.Success = TRUE
             /\ cRet'.result.Total = CartView(carts, s).Total]_vars

\* a checkout of a cart that held something: the result carries its total
\* and the cart is empty
C11_Witness ==
    /\ cRet # None /\ cRet.op = "CheckoutCart"
    /\ cRet.result.Total > 0
    /\ carts[cRet.session].Items = <<>>
    /\ carts[cRet.session].Total = 0

\* worker w takes the step
Acts(w) == pc'[w] # pc[w] \/ loop'[w] # loop[w] \/ result'[w] # result[w]

C13_MapAccessExclusive ==
    \A w \in Workers : pc[w] = "summary" => ~MapRace(w)

HasLine(items, p) == \E i \in DOMAIN items : items[i].ProductName = p

\* the first line with that product name
FirstIndex(items, p) ==
    CHOOSE i \in DOMAIN items :
        /\ items[i].ProductName = p
        /\ \A j \in 1..(i - 1) : items[j].ProductName # p

\* the price table's entry for the products of the model: 999.99 for
\* "iPhone 15", and 99.99 for a product the table does not list
ListedPrice(p) == IF p = IPhone15 THEN 99999 ELSE 9999

\* after is before with product p upserted by quantity q
Upserted(before, after, p, q) ==
    IF HasLine(before, p)
    THEN LET i == FirstIndex(before, p)
         IN /\ Len(after) = Len(before)
            /\ after[i].ProductName = p
            /\ after[i].Price = before[i].Price
            /\ after[i].Quantity = before[i].Quantity + q
            /\ after[i].Subtotal = (before[i].Quantity + q) * before[i].Price
            /\ \A j \in DOMAIN before \ {i} : after[j] = before[j]
    ELSE /\ Len(after) = Len(before) + 1
         /\ after[Len(after)] =
               [ProductName |-> p, Quantity |-> q, Price |-> ListedPrice(p),
                Subtotal |-> q * ListedPrice(p)]
         /\ \A j \in DOMAIN before : after[j] = before[j]

\* C14 as stated: AddToCart(session, product, q) succeeds and upserts the
\* product by q, for every q.
C14_AddUpsertsByGivenQuantity ==
    [][Called("AddToCart") =>
          /\ cRet'.err = None
          /\ Upserted(CartView(carts, cRet'.session).Items,
                      carts'[cRet'.session].Items,
                      cRet'.productName, cRet'.quantity)]_vars

\* C14: AddToCart(session, product, q) succeeds and upserts the product: by
\* q when q is positive, by 1 when q is zero or negative.  The first line
\* with the product name grows and no line is added, or else one line is
\* appended at the end with the looked-up price; the other lines stay.
C14_AddUpserts ==
    [][Called("AddToCart") =>
          /\ cRet'.err = None
          /\ Upserted(CartView(carts, cRet'.session).Items,
                      carts'[cRet'.session].Items,
                      cRet'.productName,
                      IF cRet'.quantity <= 0 THEN 1 ELSE cRet'.quantity)]_vars

\* AddToCart was called with quantity 0 for a product that had a line, next
\* to a line of another product
C14_Witness ==
    /\ cRet # None /\ cRet.op = "AddToCart" /\ cRet.quantity = 0
    /\ Len(carts[cRet.session].Items) = 2
    /\ carts[cRet.session].Items[1].ProductName = cRet.productName
    /\ carts[cRet.session].Items[1].Quantity = 2

\* C15: RemoveFromCart(session, product) succeeds; with a line of that
\* product name in the cart, the first such line is gone and every other
\* line is kept, in its order; without one, the lines are as they were.
C15_RemoveDeletesFirstLine ==
    [][Called("RemoveFromCart") =>
          LET before == CartView(carts, cRet'.session).Items
              after == carts'[cRet'.session].Items
              p == cRet'.productName
          IN /\ cRet'.err = None
             /\ IF HasLine(before, p)
                THEN LET i == FirstIndex(before, p)
                     IN /\ Len(after) = Len(before) - 1
                        /\ \A j \in 1..(i - 1) : after[j] = before[j]
                        /\ \A j \in i..Len(after) : after[j] = before[j + 1]
                ELSE after = before]_vars

\* the product was named on two lines: the second one is left, and the line
\* of another product after it
C15_Witness ==
    /\ cRet # None /\ cRet.op = "RemoveFromCart" /\ cRet.productName = Gadget
    /\ Len(carts[cRet.session].Items) = 2
    /\ carts[cRet.session].Items[1].ProductName = Gadget
    /\ carts[cRet.session].Items[1].Quantity = 2
    /\ carts[cRet.session].Items[2].ProductName = IPhone15

(***************************************************************************)
(* What the claims say of the tool calls of a test execution.              *)
(***************************************************************************)
\* worker w executes a tool call of that name in this step
Executes(w, toolName) ==
    /\ pc[w] = "exec"
    /\ Head(loop[w].pending).Name = toolName
    /\ loop'[w] # loop[w]

\* the result the step adds to the trace of worker w
NewResult(w) ==
    IF Len(loop[w].pending) > 1
    THEN loop'[w].iterationResults[Len(loop'[w].iterationResults)]
    ELSE loop'[w].toolResults[Len(loop'[w].toolResults)]

\* C16: a view_cart call succeeds with the cart of its session as result,
\* and the lines, Total and ItemCount of every session's cart are after the
\* call what they were before it.
C16_ViewCartChangesNothing ==
    [][\A w \in Workers : Executes(w, "view_cart") =>
          /\ NewResult(w).ToolName = "view_cart"
          /\ NewResult(w).Success = TRUE
          /\ NewResult(w).Result = CartPointer(SessionOf(w))
          /\ carts'[SessionOf(w)] # NoCart
          /\ \A s \in Sessions : CartView(carts', s) = CartView(carts, s)]_vars

\* view_cart was the last call executed, on a cart that holds a line
C16_Witness ==
    \E w \in Workers :
        /\ pc[w] = "request"
        /\ Len(loop[w].toolResults) > 0
        /\ loop[w].toolResults[Len(loop[w].toolResults)].ToolName = "view_cart"
        /\ carts[SessionOf(w)] # NoCart
        /\ Len(carts[SessionOf(w)].Items) > 0
        /\ carts[SessionOf(w)].Total > 0

(***************************************************************************)
(* What further claims say of the matcher.                                 *)
(***************************************************************************)
\* the two characters are the same, or the same letter in its two cases
SameLetter(c, d) ==
    \/ c = d
    \/ \E k \in 1..Len(UpperCase) :
          {c, d} = {UpperCase[k], LowerCase[k]}

\* the two strings differ at most in the case of their letters
DifferOnlyInCase(a, b) ==
    /\ Len(a) = Len(b)
    /\ \A k \in 1..Len(a) : SameLetter(a[k], b[k])

\* every expected key is in the actual call, with a value whose printed form
\* differs from the expected one's at most in letter case
AgreesUpToCase(expected, actual) ==
    /\ expected.Name = actual.Name
    /\ \A key \in DOMAIN expected.Arguments :
          /\ key \in DOMAIN actual.Arguments
          /\ DifferOnlyInCase(Sprintf(expected.Arguments[key]),
                              Sprintf(actual.Arguments[key]))

\* C17: values whose printed forms differ only in letter case are equal for
\* the matcher: an actual call that agrees with the expected call up to the
\* case of the values is accepted, and a trace that so agrees with a
\* variant, call by call, passes.
C17_ValuesCompareCaseInsensitively ==
    Evaluated =>
        \A v \in 1..Len(Variants) :
            LET tools == Variants[v].Tools
            IN /\ \A k \in 1..Len(tools) :
                     (k <= Len(ActualNow) /\ AgreesUpToCase(tools[k], ActualNow[k]))
                        => isToolCallCorrect(tools[k], ActualNow[k])
               /\ (/\ Len(tools) = Len(ActualNow)
                   /\ \A k \in 1..Len(tools) : AgreesUpToCase(tools[k], ActualNow[k]))
                     => mOut.success

\* the expected query is "tv", the actual one "TV", and the test passed
C17_Witness ==
    /\ Evaluated /\ mOut.success
    /\ Len(mTrace) = 1 /\ Len(Variants) = 1
    /\ Len(Variants[1].Tools) = 1
    /\ Variants[1].Tools[1] = ExpSearch
    /\ "query" \in DOMAIN ActualNow[1].Arguments
    /\ ActualNow[1].Arguments["query"] = Str(TV)

\* C18: a failed evaluation records no variant name: the path is empty.
C18_FailureRecordsNoPath ==
    (Evaluated /\ ~mOut.success) => mOut.path = ""

\* the orders in which a range statement may yield the keys of a map
IterationOrders(keys) ==
    { order \in [1..Cardinality(keys) -> keys] :
         \A a, b \in 1..Cardinality(keys) : order[a] = order[b] => a = b }

\* C19: a second run of the matcher on the same test case and trace returns
\* the verdict and the variant name of the first; a run leaves the test
\* case, the trace and the carts as they were; and the verdict on a call
\* does not depend on the order in which the expected keys are visited.
C19_MatcherIdempotentAndPure ==
    /\ [](mOut2 # None => (mOut2.success = mOut.success /\ mOut2.path = mOut.path))
    /\ [][/\ mTestCase' = mTestCase
          /\ mTrace' = mTrace
          /\ carts' = carts]_matchVars
    /\ [](Evaluated =>
            \A v \in 1..Len(Variants) :
               \A k \in 1..Len(Variants[v].Tools) :
                  (k <= Len(ActualNow) /\ Variants[v].Tools[k].Name = ActualNow[k].Name)
                     => \A order \in IterationOrders(DOMAIN Variants[v].Tools[k].Arguments) :
                           argumentsCorrectIn(order, Variants[v].Tools[k].Arguments,
                                              ActualNow[k].Arguments)
                           = isToolCallCorrect(Variants[v].Tools[k], ActualNow[k]))

\* the matcher ran twice on a trace of two calls that matches the second
\* variant, next to a cart that holds a line
C19_Witness ==
    /\ mOut2 # None /\ mOut2.success /\ mOut2.path = "v2"
    /\ Len(mTrace) = 2
    /\ carts[SessionIDs[1]] # NoCart

(***************************************************************************)
(* What the claims say of the Batch Analyzer.                              *)
(***************************************************************************)
Analyzed == aOut # None /\ aOut.err = ""

CellSum(m) ==
    m.TruePositives + m.FalsePositives + m.TrueNegatives + m.FalseNegatives

\* the model was expected to call a tool, and it called one
ToolExpected(r) ==
    \E i \in DOMAIN r.TestCase.ExpectedToolVariants :
        r.TestCase.ExpectedToolVariants[i].Tools # <<>>
ToolCalled(r) == r.Response # None /\ r.Response.ToolCalls # <<>>

HowMany(P(_)) == Cardinality({i \in DOMAIN aResults : P(aResults[i])})

IsTruePositive(r) == ToolExpected(r) /\ ToolCalled(r)
IsFalsePositive(r) == ~ToolExpected(r) /\ ToolCalled(r)
IsTrueNegative(r) == ~ToolExpected(r) /\ ~ToolCalled(r)
IsFalseNegative(r) == ToolExpected(r) /\ ~ToolCalled(r)

\* C20: every result is counted in exactly one cell of each confusion
\* matrix: the four cells of the tool-invocation matrix add up to the number
\* of results, and so do the four cells of the tool-selection matrix; each
\* cell of the invocation matrix holds the results of its own class.
C20_EachResultInOneCell ==
    /\ CellSum(calculateToolInvocationMetrics(aResults)) = Len(aResults)
    /\ CellSum(calculateToolSelectionMetrics(aResults)) = Len(aResults)
    /\ Analyzed =>
          /\ CellSum(aOut.analysis.ToolInvocation) = Len(aResults)
          /\ CellSum(aOut.analysis.ToolSelection) = Len(aResults)
          /\ aOut.analysis.TotalTests = Len(aResults)
          /\ aOut.analysis.ToolInvocation.TruePositives = HowMany(IsTruePositive)
          /\ aOut.analysis.ToolInvocation.FalsePositives = HowMany(IsFalsePositive)
          /\ aOut.analysis.ToolInvocation.TrueNegatives = HowMany(IsTrueNegative)
          /\ aOut.analysis.ToolInvocation.FalseNegatives = HowMany(IsFalseNegative)

\* three results were analyzed, one of them with wrong tools and one
\* without a response; every cell of the invocation matrix but one is used
C20_Witness ==
    /\ Analyzed
    /\ Len(aResults) = 3
    /\ \E i \in DOMAIN aResults : aResults[i].Response = None
    /\ \E i \in DOMAIN aResults :
          /\ ToolExpected(aResults[i]) /\ ToolCalled(aResults[i])
          /\ ~matchesAnyVariant(aResults[i].TestCase,
                                getActualTools(aResults[i].Response))
    /\ aOut.analysis.ToolInvocation.TruePositives = 1
    /\ aOut.analysis.ToolInvocation.FalseNegatives = 1
    /\ aOut.analysis.ToolInvocation.FalsePositives = 1


(***************************************************************************)
(* What the claims say of calculateMetrics.                                *)
(***************************************************************************)
\* the fraction f is the rational number n / d
IsRatio(f, n, d) == f.den > 0 /\ d > 0 /\ f.num * d = n * f.den
IsZero(f) == f.den > 0 /\ f.num = 0

\* f is n / d, and 0 where d is 0
IsRatioOrZero(f, n, d) == IF d = 0 THEN IsZero(f) ELSE IsRatio(f, n, d)

\* f is the harmonic mean 2pr / (p + r) of p and r, and 0 where p + r is 0
IsHarmonicMean(f, p, r) ==
    IF p.num = 0 /\ r.num = 0 THEN IsZero(f)
    ELSE /\ f.den > 0
         /\ f.num * (p.num * r.den + r.num * p.den) = 2 * p.num * r.num * f.den

\* C21: for all non-negative counts calculateMetrics returns Precision =
\* TP / (TP + FP), Recall = TP / (TP + FN) and F1 = 2PR / (P + R), which is
\* 2TP / (2TP + FP + FN), each 0 where its denominator is 0; for TP = 18,
\* FP = 0, FN = 2 it returns Precision 1, Recall 18/20 and F1 36/38.
C21_MetricsFormulas ==
    aMetrics # None =>
        LET tp == aCounts[1]
            fp == aCounts[2]
            fn == aCounts[4]
        IN /\ IsRatioOrZero(aMetrics.Precision, tp, tp + fp)
           /\ IsRatioOrZero(aMetrics.Recall, tp, tp + fn)
           /\ IsHarmonicMean(aMetrics.F1, aMetrics.Precision, aMetrics.Recall)
           /\ IsRatioOrZero(aMetrics.F1, 2 * tp, 2 * tp + fp + fn)
           /\ (tp = 18 /\ fp = 0 /\ fn = 2) =>
                  /\ IsRatio(aMetrics.Precision, 1, 1)
                  /\ IsRatio(aMetrics.Recall, 18, 20)
                  /\ IsRatio(aMetrics.F1, 36, 38)

C21_Witness ==
    /\ aMetrics # None
    /\ aCounts[1] = 18 /\ aCounts[2] = 0 /\ aCounts[4] = 2
    /\ IsRatio(aMetrics.F1, 36, 38)

(***************************************************************************)
(* What the claims say of the two classifications.                         *)
(***************************************************************************)
\* the cell of the tool-invocation matrix for a result of which a tool was
\* expected (or not) and by which a tool was called (or not)
CellOf(expected, actual) ==
    IF expected THEN (IF actual THEN "tp" ELSE "fn")
    ELSE (IF actual THEN "fp" ELSE "tn")

NoResponse(r) == r.Response = None

\* C22: the tool-invocation class of a result depends only on whether some
\* variant expects a tool call and whether the response holds a tool call;
\* a result without a response counts as one in which no tool was called
\* (a true negative or a false negative): it is neither left out of the
\* matrix nor an error of the analysis.
C22_InvocationByTwoBooleans ==
    /\ \A i \in DOMAIN aResults :
          /\ invocationCell(aResults[i])
                = CellOf(ToolExpected(aResults[i]), ToolCalled(aResults[i]))
          /\ NoResponse(aResults[i]) =>
                invocationCell(aResults[i]) \in {"tn", "fn"}
    /\ (aOut # None /\ aResults # <<>>) =>
          /\ aOut.err = ""
          /\ aOut.analysis.ToolInvocation.TrueNegatives
               + aOut.analysis.ToolInvocation.FalseNegatives
                 >= HowMany(NoResponse)
          /\ aOut.analysis.ToolInvocation.TruePositives
               + aOut.analysis.ToolInvocation.FalsePositives
                 = HowMany(ToolCalled)

\* two results without a response were analyzed: one is the true negative,
\* the other the false negative
C22_Witness ==
    /\ Analyzed
    /\ Len(aResults) = 2
    /\ \A i \in DOMAIN aResults : NoResponse(aResults[i])
    /\ aOut.analysis.ToolInvocation.TrueNegatives = 1
    /\ aOut.analysis.ToolInvocation.FalseNegatives = 1

\* the names of the tools a variant expects, and of the tools called
NamesOf(variant) == [k \in DOMAIN variant.Tools |-> variant.Tools[k].Name]
ActualNames(r) ==
    IF r.Response = None THEN <<>>
    ELSE [k \in DOMAIN r.Response.ToolCalls |-> r.Response.ToolCalls[k].ToolName]

\* the called names are, in length and order, the names of some variant
EqualsSomeVariant(r) ==
    \E i \in DOMAIN r.TestCase.ExpectedToolVariants :
        NamesOf(r.TestCase.ExpectedToolVariants[i]) = ActualNames(r)

IsSelectedRight(r) == ToolExpected(r) /\ ToolCalled(r) /\ EqualsSomeVariant(r)
IsSelectedWrong(r) ==
    \/ ~ToolExpected(r) /\ ToolCalled(r)
    \/ ToolExpected(r) /\ ToolCalled(r) /\ ~EqualsSomeVariant(r)

C24_VariantMatchCountsAsCorrect ==
    /\ \A i \in DOMAIN aResults :
          EqualsSomeVariant(aResults[i]) =>
              selectionCell(aResults[i]) \in {"tp", "tn"}
    /\ Analyzed =>
          aOut.analysis.ToolSelection.TruePositives
            + aOut.analysis.ToolSelection.TrueNegatives
              >= HowMany(EqualsSomeVariant)

(***************************************************************************)
(* What the claims say of the batch report.                                *)
(***************************************************************************)
Reported == aReport # None /\ aReport.err = ""

\* f >= g for two fractions with positive denominators
AtLeast(f, g) == f.num * g.den >= g.num * f.den

SelectionF1(k) == aReport.Models[k].ToolSelection.F1

\* the summary names a best performing model
NamesBest == "best" \in DOMAIN aReport.Summary

\* C25: in every report the models stand in non-increasing order of their
\* tool-selection F1, so the model the summary names as best performing,
\* which is the first of the list, has the greatest tool-selection F1 of
\* all models of the report.
C25_ModelsByF1Descending ==
    Reported =>
        /\ \A i, j \in DOMAIN aReport.Models :
              i < j => AtLeast(SelectionF1(i), SelectionF1(j))
        /\ NamesBest =>
              /\ aReport.Summary.best = aReport.Models[1].ModelName
              /\ aReport.Summary.bestF1 = SelectionF1(1)
              /\ \A j \in DOMAIN aReport.Models :
                    AtLeast(aReport.Summary.bestF1, SelectionF1(j))

\* three models with three different F1 were reported
C25_Witness ==
    /\ Reported
    /\ Len(aReport.Models) = 3
    /\ NamesBest
    /\ ~AtLeast(SelectionF1(2), SelectionF1(1))
    /\ ~AtLeast(SelectionF1(3), SelectionF1(2))

\* the files of a model, and the results they hold: (file, place in file)
FilesOf(modelName) == {i \in DOMAIN aFiles : aFiles[i].Model = modelName}
ReadableFilesOf(modelName) ==
    {i \in FilesOf(modelName) : aFiles[i].Content.readable}
ResultsIn(fileSet) ==
    UNION { { <<i, n>> : n \in DOMAIN aFiles[i].Content.results } : i \in fileSet }
ResultAt(at) == aFiles[at[1]].Content.results[at[2]]

HowManyIn(places, P(_)) == Cardinality({at \in places : P(ResultAt(at))})

\* C26: the metrics of a model are computed over the results of all its
\* result files together: TotalTests is the sum of the files' result
\* counts, TotalRuns is the number of files, and every result of every
\* file is counted in both matrices, whichever file it came from and
\* whether or not another file holds the same result.
C26_AllFilesOfModelCounted ==
    Reported =>
        \A k \in DOMAIN aReport.Models :
            LET m == aReport.Models[k]
                places == ResultsIn(FilesOf(m.ModelName))
            IN /\ m.TotalRuns = Cardinality(FilesOf(m.ModelName))
               /\ m.TotalTests = Cardinality(places)
               /\ CellSum(m.ToolInvocation) = Cardinality(places)
               /\ CellSum(m.ToolSelection) = Cardinality(places)
               /\ m.ToolInvocation.TruePositives = HowManyIn(places, IsTruePositive)
               /\ m.ToolInvocation.FalseNegatives = HowManyIn(places, IsFalseNegative)
               /\ m.ToolSelection.TruePositives = HowManyIn(places, IsSelectedRight)
               /\ m.ToolSelection.FalsePositives = HowManyIn(places, IsSelectedWrong)
               /\ m.ToolSelection.FalseNegatives = HowManyIn(places, IsFalseNegative)

\* a model with two files, three results in all, two of them the same
\* right call in different files
C26_Witness ==
    /\ Reported
    /\ \E k \in DOMAIN aReport.Models :
          /\ aReport.Models[k].TotalRuns = 2
          /\ aReport.Models[k].TotalTests = 3
          /\ aReport.Models[k].ToolSelection.TruePositives = 2
          /\ aReport.Models[k].ToolSelection.FalsePositives = 1

\* C27: a result file that cannot be read or parsed is skipped alone: the
\* batch analysis still completes, and the results of every other readable
\* file, other files of the same model among them, are still aggregated.
C27_UnreadableFileSkippedAlone ==
    /\ (aReport # None /\ aFiles # <<>>) => aReport.err = ""
    /\ Reported =>
          \A modelName \in modelNamesOf(aFiles) :
              ResultsIn(ReadableFilesOf(modelName)) # {} =>
                  \E k \in DOMAIN aReport.Models :
                      /\ aReport.Models[k].ModelName = modelName
                      /\ aReport.Models[k].TotalTests
                           = Cardinality(ResultsIn(ReadableFilesOf(modelName)))

(***************************************************************************)
(* What the claims say of a tool call outside the catalog.                 *)
(***************************************************************************)
CatalogTools ==
    {"search_products", "add_to_cart", "remove_from_cart", "view_cart", "checkout"}

\* worker w executes a tool call whose name is not in the catalog
ExecutesUnknown(w) ==
    /\ pc[w] = "exec"
    /\ Head(loop[w].pending).Name \notin CatalogTools
    /\ loop'[w] # loop[w]

\* the trace of worker w: the results of the earlier responses, then those
\* of the response at hand
TraceOf(l) == l.toolResults \o l.iterationResults

\* C28: a tool call whose name is not one of the five catalog tools yields
\* a result with Success false and the error `Unknown tool`, changes no
\* cart, and is appended to the trace like any other; it does not end the
\* loop: the remaining tool calls of the response are executed next, and
\* after the last of them the next model request is issued, as long as the
\* iteration limit leaves one.
C28_UnknownToolFailsAndLoopGoesOn ==
    [][\A w \in Workers : ExecutesUnknown(w) =>
          /\ NewResult(w).ToolName = Head(loop[w].pending).Name
          /\ NewResult(w).Success = FALSE
          /\ NewResult(w).Error = "Unknown tool"
          /\ carts' = carts
          /\ TraceOf(loop'[w]) = Append(TraceOf(loop[w]), NewResult(w))
          /\ loop'[w].pending = Tail(loop[w].pending)
          /\ IF loop'[w].pending # <<>> THEN pc'[w] = "exec"
             ELSE IF loop'[w].currentIteration < maxIterations
                  THEN pc'[w] = "request"
                  ELSE pc'[w] = "finish"
          /\ ~crashed']_vars

\* the unknown call failed, the view_cart call that followed it in the same
\* response was executed, and a second request was answered
C28_Witness ==
    \E w \in Workers :
        /\ loop[w].llmRequests >= 2
        /\ Len(loop[w].toolResults) >= 2
        /\ loop[w].toolResults[1].ToolName = "teleport"
        /\ loop[w].toolResults[1].Success = FALSE
        /\ loop[w].toolResults[1].Error = "Unknown tool"
        /\ loop[w].toolResults[2].ToolName = "view_cart"
        /\ loop[w].toolResults[2].Success = TRUE

(***************************************************************************)
(* What the claims say of a tool call with a malformed payload.            *)
(***************************************************************************)
\* the payload of the call at place i of the trace is no JSON object
Malformed(i) == mTrace[i].Arguments.json = "garbage"

\* the matcher scores the call at place i with the two sentinel keys
ScoredWithSentinels(i) ==
    DOMAIN ActualNow[i].Arguments = {"_raw_arguments", "_parse_error"}

\* C29: a tool call whose payload does not parse as a JSON object stays in
\* the trace and is scored with the sentinel mapping; the match still
\* returns a verdict, and that call never matches an expected call, so the
\* test case does not succeed on a trace that holds such a call.
C29_MalformedCallNeverMatches ==
    /\ Len(ActualNow) = Len(mTrace)
    /\ \A i \in DOMAIN mTrace : Malformed(i) =>
          /\ ScoredWithSentinels(i)
          /\ \A v \in DOMAIN Variants :
                i \in DOMAIN Variants[v].Tools =>
                    ~isToolCallCorrect(Variants[v].Tools[i], ActualNow[i])
    /\ (Evaluated /\ \E i \in DOMAIN mTrace : Malformed(i)) => ~mOut.success

(***************************************************************************)
(* What the claims say of a reply that carries no choice.                  *)
(***************************************************************************)
\* the last reply to worker w came without a transport error and without
\* a choice
GotNoChoice(w) == loop[w] # None /\ loop[w].completion = NoChoiceReply

\* C30: a reply that comes without a transport error but is malformed (it
\* carries no choice) ends the loop of its test case and is recorded as the
\* execution error of that test case: the worker does not panic, the
\* process does not crash, and the result of the test case, once built, is
\* a failure with an error message.
C30_MalformedReplyIsTestError ==
    /\ ~crashed
    /\ \A w \in Workers :
          GotNoChoice(w) =>
              /\ pc[w] # "panic"
              /\ result[w] # None =>
                    (result[w].Success = FALSE /\ result[w].ErrorMessage # "")

(***************************************************************************)
(* What the claims say of the two matchers side by side.                   *)
(***************************************************************************)
\* the expected call and the actual call agree for the single-shot matcher:
\* the printed forms of the values are the same, letter case included
CallAgreesExactly(expected, actual) ==
    /\ expected.Name = actual.Name
    /\ \A key \in DOMAIN expected.Arguments :
          /\ key \in DOMAIN actual.Arguments
          /\ Sprintf(expected.Arguments[key]) = Sprintf(actual.Arguments[key])

VariantAgreesExactly(tools, actualTools) ==
    /\ Len(tools) = Len(actualTools)
    /\ \A i \in 1..Len(tools) : CallAgreesExactly(tools[i], actualTools[i])

\* variant v is the first of the declaration that matches for the
\* agent-loop matcher, and for the single-shot matcher
FirstMatch(v) ==
    /\ VariantAgrees(Variants[v].Tools, ActualNow)
    /\ \A u \in 1..(v - 1) : ~VariantAgrees(Variants[u].Tools, ActualNow)
FirstExactMatch(v) ==
    /\ VariantAgreesExactly(Variants[v].Tools, ActualNow)
    /\ \A u \in 1..(v - 1) : ~VariantAgreesExactly(Variants[u].Tools, ActualNow)

\* C31: when more than one expected variant matches the trace, the matched
\* path reported is the name of the matching variant that comes first in
\* the declaration order of the test case; this holds for both matchers.
C31_FirstMatchingVariantReported ==
    /\ Evaluated =>
          \A v \in DOMAIN Variants :
              FirstMatch(v) => (mOut.success /\ mOut.path = Variants[v].Name)
    /\ mLegacy # None =>
          \A v \in DOMAIN Variants :
              FirstExactMatch(v) =>
                  (mLegacy.success /\ mLegacy.path = Variants[v].Name)

\* two different variants match the trace, and the first one is reported
C31_Witness ==
    /\ Evaluated /\ mLegacy # None
    /\ Len(Variants) = 2
    /\ Variants[1].Tools # Variants[2].Tools
    /\ VariantAgrees(Variants[1].Tools, ActualNow)
    /\ VariantAgrees(Variants[2].Tools, ActualNow)
    /\ mOut.success /\ mOut.path = "v1"

\* C39: the two matchers agree: on every test case and trace the
\* single-shot matcher and the agent-loop matcher return the same verdict
\* and the same matched-path name.
C39_MatchersAgree ==
    (Evaluated /\ mLegacy # None) =>
        (mLegacy.success = mOut.success /\ mLegacy.path = mOut.path)

(***************************************************************************)
(* What the claims say of the trace, the conversation history and the      *)
(* request count of one ProcessChatMessage call.                           *)
(***************************************************************************)
\* the tool calls of all responses received so far, in the order received
RECURSIVE RequestedCalls(_)
RequestedCalls(messages) ==
    IF messages = <<>> THEN <<>>
    ELSE IF Head(messages).role = "assistant"
         THEN Head(messages).toolCalls \o RequestedCalls(Tail(messages))
         ELSE RequestedCalls(Tail(messages))

\* the responses with tool calls received so far
ToolResponses(messages) ==
    Cardinality({k \in DOMAIN messages : messages[k].role = "assistant"})

CallKeys(toolCalls) ==
    [k \in DOMAIN toolCalls |-> <<toolCalls[k].ID, toolCalls[k].Name>>]
ResultKeys(toolResults) ==
    [k \in DOMAIN toolResults |-> <<toolResults[k].CallID, toolResults[k].ToolName>>]

Returned(w) == result[w] # None /\ result[w].Response # None

\* C32: the trace is the concatenation, in iteration order and within an
\* iteration in emission order, of every tool call of every response
\* received: while the loop runs the results so far followed by the calls
\* still to execute are the calls requested so far, and the trace of a
\* returned ChatResponse holds one result per requested call, in order,
\* the calls of the response that reached the cap included.
C32_TraceIsAllRequestedCalls ==
    \A w \in Workers :
        /\ ResultKeys(TraceOf(loop[w])) \o CallKeys(loop[w].pending)
              = CallKeys(RequestedCalls(loop[w].messages))
        /\ Returned(w) =>
              ResultKeys(result[w].Response.ToolCalls)
                = CallKeys(RequestedCalls(loop[w].messages))

\* the call returned at the cap; one response held two calls
C32_Witness ==
    \E w \in Workers :
        /\ Returned(w)
        /\ loop[w].currentIteration = maxIterations
        /\ Len(result[w].Response.ToolCalls) = 6
        /\ result[w].Response.ToolCalls[6].ToolName = "view_cart"

\* the history of worker w ends with the function-call message of the
\* last response and one tool-result message per call of it
EndsWithLastExchange(w) ==
    LET calls == loop[w].completion.toolCalls
        messages == loop[w].messages
        at == Len(messages) - Len(calls)
    IN /\ at >= 1
       /\ messages[at] = AssistantToolCalls(calls)
       /\ \A k \in 1..Len(calls) :
             /\ messages[at + k].role = "tool"
             /\ messages[at + k].callID = calls[k].ID

IsPrefix(s, t) == Len(s) <= Len(t) /\ SubSeq(t, 1, Len(s)) = s

\* C33: before each model request after the first the conversation history
\* ends with the function-call message of the previous response followed by
\* exactly one tool-result message per tool call of that response, in call
\* order and with that call's ID; no step removes or reorders a message
\* that is already in the history.
C33_HistoryGrowsByExchanges ==
    /\ [](\A w \in Workers :
            (pc[w] = "request" /\ loop[w].llmRequests >= 1) =>
                EndsWithLastExchange(w))
    /\ [][\A w \in Workers :
            (w \in DOMAIN loop /\ loop[w].messages # <<>>) =>
                IsPrefix(loop[w].messages, loop'[w].messages)]_vars

\* a third request is due after a response with two calls, one of them
\* failed
C33_Witness ==
    \E w \in Workers :
        /\ pc[w] = "request" /\ loop[w].llmRequests = 2
        /\ Len(loop[w].completion.toolCalls) = 2
        /\ Len(loop[w].messages) = 7
        /\ loop[w].messages[6].callID = "c6"
        /\ loop[w].messages[7].callID = "c4"

\* C34: LLMRequests of a returned ChatResponse is the number of model
\* requests issued during the call: k + 1 when the loop ended on a response
\* without tool calls after k responses with tool calls, 5 when the cap
\* was reached; executing a tool does not change the count.
C34_RequestCount ==
    /\ [](\A w \in Workers :
            Returned(w) =>
                /\ result[w].Response.LLMRequests = loop[w].llmRequests
                /\ result[w].Response.LLMRequests =
                      IF loop[w].currentIteration >= maxIterations THEN 5
                      ELSE ToolResponses(loop[w].messages) + 1)
    /\ [][\A w \in Workers :
            (pc[w] = "exec" /\ loop'[w] # loop[w]) =>
                loop'[w].llmRequests = loop[w].llmRequests]_vars

\* a call returned after two responses with tool calls and a text
C34_Witness ==
    \E w \in Workers :
        /\ Returned(w)
        /\ loop[w].currentIteration = 2
        /\ NoToolReply(w)
        /\ result[w].Response.LLMRequests = 3

(***************************************************************************)
(* What the claims say of the request log.                                 *)
(***************************************************************************)
IsRecord(chunk) == chunk # Newline

\* C35: the request log holds one whole record per line: every record is
\* followed at once by its own newline, so the bytes of a record and of its
\* newline are never interleaved with those of another record, also when
\* several test cases log at the same time.
C35_OneRecordPerLine ==
    \A k \in DOMAIN logFile :
        IsRecord(logFile[k]) =>
            \/ k < Len(logFile) /\ logFile[k + 1] = Newline
            \/ k = Len(logFile) /\ logPc[logFile[k].TestCase] = "newline"

(***************************************************************************)
(* What the claims say of the cart a tool result shows, and of the lines   *)
(* of a cart.                                                              *)
(***************************************************************************)
\* the result of a cart tool call that went through: it holds a *CartSummary
IsCartResult(r) ==
    r.Success /\ r.ToolName \in {"add_to_cart", "remove_from_cart", "view_cart"}

\* C36: the result recorded in the trace for a cart tool call shows the
\* cart as it was right after that call: no later step changes what a
\* result already in the trace shows.
C36_ResultShowsCartOfItsCall ==
    [][\A w \in Workers :
          \A k \in DOMAIN TraceOf(loop[w]) :
              LET r == TraceOf(loop[w])[k]
              IN IsCartResult(r) =>
                    carts'[r.Result.cartOf] = carts[r.Result.cartOf]]_vars

\* C37: a cart holds at most one line per product name, in every reachable
\* state of the Cart Store.
C37_OneLinePerProduct ==
    \A s \in Sessions :
        carts[s] # NoCart =>
            \A i, j \in DOMAIN carts[s].Items :
                carts[s].Items[i].ProductName = carts[s].Items[j].ProductName
                    => i = j

\* C38: in every reachable state of the Cart Store every cart line has a
\* quantity of at least 1 and every cart a total of at least 0, although
\* AddToCart is called with quantities <= 0 and InitializeCartState with
\* items whose quantity is <= 0.
C38_QuantitiesPositive ==
    \A s \in Sessions :
        carts[s] # NoCart =>
            /\ carts[s].Total >= 0
            /\ carts[s].ItemCount >= 0
            /\ \A i \in DOMAIN carts[s].Items :
                  /\ carts[s].Items[i].Quantity >= 1
                  /\ carts[s].Items[i].Subtotal >= 0

\* AddToCart was called with a quantity that is not positive, on a cart
\* initialized from a state with an item of quantity 0: the item of
\* quantity 0 is not there, and the product added has one line
C38_Witness ==
    /\ cRet # None /\ cRet.op = "AddToCart" /\ cRet.quantity <= 0
    /\ carts[cRet.session] # NoCart
    /\ Len(carts[cRet.session].Items) = 2
    /\ carts[cRet.session].Items[1].ProductName = IPhone15
    /\ carts[cRet.session].Items[1].Quantity = 1
    /\ carts[cRet.session].Items[2].ProductName = cRet.productName
    /\ carts[cRet.session].Items[2].Quantity = 1

(***************************************************************************)
(* What the claims say of the two confusion matrices side by side.         *)
(***************************************************************************)
\* C40: for any list of results the two confusion matrices agree on the
\* negatives and on the number of results where a tool was both expected
\* and called: the true negatives are the same, the false negatives are
\* the same, the positives add up to the same number, and tool selection
\* has no more true positives than tool invocation.
C40_MatricesAgree ==
    Analyzed =>
        LET selection == aOut.analysis.ToolSelection
            invocation == aOut.analysis.ToolInvocation
        IN /\ selection.TrueNegatives = invocation.TrueNegatives
           /\ selection.FalseNegatives = invocation.FalseNegatives
           /\ selection.TruePositives + selection.FalsePositives
                = invocation.TruePositives + invocation.FalsePositives
           /\ selection.TruePositives <= invocation.TruePositives

\* a wrong tool, a missing response and a rightly silent response were
\* analyzed: the wrong tool is a true positive of tool invocation only
C40_Witness ==
    /\ Analyzed
    /\ Len(aResults) = 3
    /\ aOut.analysis.ToolInvocation.TruePositives = 1
    /\ aOut.analysis.ToolSelection.TruePositives = 0
    /\ aOut.analysis.ToolSelection.FalsePositives = 1
    /\ aOut.analysis.ToolSelection.TrueNegatives = 1
    /\ aOut.analysis.ToolSelection.FalseNegatives = 1

=============================================================================
